---- MODULE Spec2Model ----
(***************************************************************************)
(* The scene-synchronisation engine of town-builder: the Scene Store       *)
(* (app/services/storage.py), the batch executor                           *)
(* (app/services/batch_operations.py), the history manager                 *)
(* (app/services/history.py), the undo/redo routes (app/routes/history.py) *)
(* and the broadcaster (app/services/events.py).                           *)
(*                                                                         *)
(* Python values are modelled with their sharing.  A town is a dict from   *)
(* category to a list object; dict.copy() copies the dict and shares the   *)
(* lists.  A list object is a reference into heap; a "ref town" maps each  *)
(* category key to a reference, a "value town" (a JSON document in the     *)
(* durable backing) maps each key to the list contents.  json.dumps reads  *)
(* the lists through the heap, json.loads allocates new lists.             *)
(*                                                                         *)
(* One action is one request, run from its first line to its response:     *)
(* every call a handler makes to a service is modelled as that service's   *)
(* body run to completion at the place of the call.                        *)
(***************************************************************************)
EXTENDS Integers, Sequences, FiniteSets, TLC

-----------------------------------------------------------------------------
(* Bounds of the model *)

\* longest list kept in one category
MaxObjects == 2
\* longest batch drawn
MaxOps == 2
\* history entries created (uuid4 calls of add_entry) in one behaviour
MaxEntries == 3
\* requests during which calls to the durable backing fail
MaxFaults == 1
\* history entries created in one behaviour that fills the history stack
MaxCommits == 102

(* Program constants *)

MAX_HISTORY_SIZE == 100

None == "None"

\* category keys; DEFAULT_TOWN_DATA's keys exist from the start (terrain, roads
\* and props are handled exactly like buildings and are left out), any other
\* category is created by the first create into it
DefaultCategories == {"buildings"}
Categories == {"buildings", "vehicles"}
CategoryOrder == <<"buildings", "vehicles">>

\* object ids a client supplies
Ids == {"a", "b"}

\* an object without a "position" key, and one whose position is not a
\* mapping holding x and y
AbsentPos == -1
BadPos == -2
Coords == {0, 3}

-----------------------------------------------------------------------------
VARIABLES
    redis_client,        \* storage.redis_client: TRUE when a client exists
    flaky,               \* TRUE when calls to the backing may fail
    r_town_data,         \* backing key "town_data": <<>> or <<value town>>
    r_town_history,      \* backing list "town_history" of value entries
    r_town_redo,         \* backing list "town_redo" of value entries
    heap,                \* the list objects referenced from process memory
    _town_data_storage,  \* storage._town_data_storage, a ref town
    _history_stack,      \* history._history_stack, ref entries
    _redo_stack,         \* history._redo_stack, ref entries
    uuid_count,          \* uuid4() calls made by add_entry so far
    faults,              \* requests so far in which a backing call failed
    out,                 \* the last request: what it was and its response
    watch,               \* observer of a committed batch and what follows it
    snapshot_client,     \* snapshot_manager.redis_client, set at import
    r_snapshots,         \* backing list "town_snapshots" and the data keys
    snapshot_count,      \* uuid4() calls made by create_snapshot so far
    reqs,                \* the requests in progress, each at an await
    _connected_users,    \* events._connected_users: name -> last seen
    now,                 \* time.time(), in seconds
    streams,             \* the open event streams
    channel              \* what was published on the pub/sub channel

vars == <<redis_client, flaky, r_town_data, r_town_history, r_town_redo,
          heap, _town_data_storage, _history_stack, _redo_stack, uuid_count,
          faults, out, watch, snapshot_client, r_snapshots, snapshot_count,
          reqs, _connected_users, now, streams, channel>>

\* the stores as one record, passed through the service operators
Cur ==
    [client |-> redis_client, rTown |-> r_town_data, rHist |-> r_town_history,
     rRedo |-> r_town_redo, heap |-> heap, mTown |-> _town_data_storage,
     mHist |-> _history_stack, mRedo |-> _redo_stack, uuids |-> uuid_count,
     sClient |-> snapshot_client, rSnaps |-> r_snapshots,
     snapIds |-> snapshot_count]

-----------------------------------------------------------------------------
(* Python values *)

\* the references of a ref town, in key order
TownRefs(t) ==
    LET F[i \in 0..Len(CategoryOrder)] ==
            IF i = 0 THEN <<>>
            ELSE IF CategoryOrder[i] \in DOMAIN t
                 THEN Append(F[i - 1], t[CategoryOrder[i]])
                 ELSE F[i - 1]
    IN F[Len(CategoryOrder)]

\* json.dumps of a town held in memory: the lists are read through the heap
Dump(t, h) == [c \in DOMAIN t |-> h[t[c]]]

\* json.loads of a town: every list of the document is a new list object
Load(v, h) ==
    LET keys == TownRefs([c \in DOMAIN v |-> c])
        n == Len(keys)
        at(c) == CHOOSE i \in 1..n : keys[i] = c
    IN [town |-> [c \in DOMAIN v |-> Len(h) + at(c)],
        heap |-> h \o [i \in 1..n |-> v[keys[i]]]]

\* dict.copy(): a new dict holding the same list objects
ShallowCopy(t) == [c \in DOMAIN t |-> t[c]]

DumpEntry(e, h) ==
    [id |-> e.id, operation |-> e.operation,
     before_state |-> Dump(e.before_state, h),
     after_state |-> Dump(e.after_state, h)]

LoadEntry(v, h) ==
    LET b == Load(v.before_state, h)
        a == Load(v.after_state, b.heap)
    IN [entry |-> [id |-> v.id, operation |-> v.operation,
                   before_state |-> b.town, after_state |-> a.town],
        heap |-> a.heap]

\* list.append: nothing falls out
ListAppend(q, e) == Append(q, e)

\* deque(maxlen=MAX_HISTORY_SIZE).append: the oldest entry falls out
DequeAppend(q, e) ==
    LET s == Append(q, e)
    IN IF Len(s) > MAX_HISTORY_SIZE THEN Tail(s) ELSE s

\* LTRIM key -n -1: keep the last n elements
LTrim(s, n) ==
    IF Len(s) > n THEN SubSeq(s, Len(s) - n + 1, Len(s)) ELSE s

Reverse(s) == [i \in 1..Len(s) |-> s[Len(s) + 1 - i]]

-----------------------------------------------------------------------------
(* Reachability of list objects: the references are renamed in the order   *)
(* in which the in-memory store, the history stack and the redo stack      *)
(* reach them, and unreachable lists are dropped.                          *)

\* the references a sequence of towns holds, town by town and key by key;
\* 0 where a town lacks the key
Slots(towns) ==
    LET k == Len(CategoryOrder)
    IN [n \in 1..(k * Len(towns)) |->
           LET t == towns[((n - 1) \div k) + 1]
               c == CategoryOrder[((n - 1) % k) + 1]
           IN IF c \in DOMAIN t THEN t[c] ELSE 0]

\* the towns the entries of a stack hold
EntriesTowns(q) ==
    [n \in 1..(2 * Len(q)) |->
        IF n % 2 = 1 THEN q[(n + 1) \div 2].before_state
        ELSE q[n \div 2].after_state]

Collect(S) ==
    LET slots == Slots(<<S.mTown>> \o EntriesTowns(S.mHist)
                       \o EntriesTowns(S.mRedo))
        live == {slots[n] : n \in 1..Len(slots)} \ {0}
        first(r) == CHOOSE n \in 1..Len(slots) :
                        /\ slots[n] = r
                        /\ \A m \in 1..(n - 1) : slots[m] # r
        new(r) == Cardinality({q \in live : first(q) <= first(r)})
        old(i) == CHOOSE r \in live : new(r) = i
        town(t) == [c \in DOMAIN t |-> new(t[c])]
        entry(e) == [e EXCEPT !.before_state = town(e.before_state),
                              !.after_state = town(e.after_state)]
    IN [S EXCEPT !.heap = [i \in 1..Cardinality(live) |-> S.heap[old(i)]],
                 !.mTown = town(S.mTown),
                 !.mHist = [i \in 1..Len(S.mHist) |-> entry(S.mHist[i])],
                 !.mRedo = [i \in 1..Len(S.mRedo) |-> entry(S.mRedo[i])]]

-----------------------------------------------------------------------------
(* app/services/storage.py *)

\* get_town_data: the backing's document when the client exists, the call
\* succeeds and the key holds data; else a copy of the in-memory dict
get_town_data(S, fail) ==
    IF S.client /\ ~fail /\ S.rTown # <<>>
    THEN LET l == Load(S.rTown[1], S.heap)
         IN [S |-> [S EXCEPT !.heap = l.heap], ret |-> l.town]
    ELSE [S |-> S, ret |-> ShallowCopy(S.mTown)]

\* set_town_data: the in-memory dict is replaced first, then the backing is
\* written; a failing write is logged and swallowed
set_town_data(S, data, fail) ==
    LET S1 == [S EXCEPT !.mTown = ShallowCopy(data)]
    IN IF S.client /\ ~fail
       THEN [S1 EXCEPT !.rTown = <<Dump(data, S.heap)>>]
       ELSE S1

-----------------------------------------------------------------------------
(* app/services/history.py: HistoryManager.  A call to the backing that    *)
(* fails raises inside the method's try block; failAt names the call that  *)
(* raises (0: none).                                                       *)

\* an add_entry that leaves both redo stacks as they are
add_entry_keeping_redo(S, operation, before_state, after_state, failAt) ==
    LET entry == [id |-> S.uuids + 1, operation |-> operation,
                  before_state |-> before_state, after_state |-> after_state]
        S0 == [S EXCEPT !.uuids = @ + 1]
    IN IF ~S.client \/ failAt # 0
       THEN [S0 EXCEPT !.mHist = DequeAppend(@, entry)]
       ELSE [S0 EXCEPT !.rHist = LTrim(Append(@, DumpEntry(entry, S0.heap)),
                                       MAX_HISTORY_SIZE)]

\* add_entry: RPUSH (1), LLEN (2), LTRIM when over the maximum (3), DEL of
\* the redo list (4); on an exception, and without a client, the entry goes
\* to the in-memory deque and the in-memory redo stack is cleared
add_entry(S, operation, before_state, after_state, failAt) ==
    LET entry == [id |-> S.uuids + 1, operation |-> operation,
                  before_state |-> before_state, after_state |-> after_state]
        S0 == [S EXCEPT !.uuids = @ + 1]
        memory(T) == [T EXCEPT !.mHist = DequeAppend(@, entry),
                               !.mRedo = <<>>]
        pushed == [S0 EXCEPT !.rHist = Append(@, DumpEntry(entry, S0.heap))]
        over == Len(pushed.rHist) > MAX_HISTORY_SIZE
        trimmed == IF over
                   THEN [pushed EXCEPT !.rHist = LTrim(@, MAX_HISTORY_SIZE)]
                   ELSE pushed
    IN IF ~S.client THEN memory(S0)
       ELSE CASE failAt = 1 -> memory(S0)
              [] failAt = 2 -> memory(pushed)
              [] failAt = 3 /\ over -> memory(pushed)
              [] failAt = 4 -> memory(trimmed)
              [] OTHER -> [trimmed EXCEPT !.rRedo = <<>>]

\* get_history: LRANGE key -limit -1 reversed; without a client, and after
\* a failed call, list(_history_stack)[:limit] reversed
get_history(S, limit, fail) ==
    IF S.client /\ ~fail
    THEN Reverse(LTrim(S.rHist, limit))
    ELSE LET n == IF limit < Len(S.mHist) THEN limit ELSE Len(S.mHist)
         IN Reverse([i \in 1..n |-> DumpEntry(S.mHist[i], S.heap)])

\* a can_undo that asks the in-memory deque only
can_undo_memory(S, fail) == Len(S.mHist) > 0

can_undo(S, fail) ==
    IF S.client /\ ~fail THEN Len(S.rHist) > 0 ELSE Len(S.mHist) > 0

can_redo(S, fail) ==
    IF S.client /\ ~fail THEN Len(S.rRedo) > 0 ELSE Len(S.mRedo) > 0

\* pop_last_entry: RPOP of the backing list; when that fails or returns
\* nothing, the in-memory deque is popped.  ret is <<>> for None.
pop_last_entry(S, fail) ==
    IF S.client /\ ~fail /\ S.rHist # <<>>
    THEN LET n == Len(S.rHist)
             l == LoadEntry(S.rHist[n], S.heap)
         IN [S |-> [S EXCEPT !.rHist = SubSeq(@, 1, n - 1), !.heap = l.heap],
             ret |-> <<l.entry>>]
    ELSE IF S.mHist # <<>>
         THEN LET n == Len(S.mHist)
              IN [S |-> [S EXCEPT !.mHist = SubSeq(@, 1, n - 1)],
                  ret |-> <<S.mHist[n]>>]
         ELSE [S |-> S, ret |-> <<>>]

\* push_redo_entry: RPUSH (1), LLEN (2), LTRIM when over the maximum (3); on
\* an exception, and without a client, the entry goes to the in-memory deque
push_redo_entry(S, entry, failAt) ==
    LET memory(T) == [T EXCEPT !.mRedo = DequeAppend(@, entry)]
        pushed == [S EXCEPT !.rRedo = Append(@, DumpEntry(entry, S.heap))]
        over == Len(pushed.rRedo) > MAX_HISTORY_SIZE
    IN IF ~S.client THEN memory(S)
       ELSE CASE failAt = 1 -> memory(S)
              [] failAt = 2 -> memory(pushed)
              [] failAt = 3 /\ over -> memory(pushed)
              [] OTHER -> IF over
                          THEN [pushed EXCEPT
                                   !.rRedo = LTrim(@, MAX_HISTORY_SIZE)]
                          ELSE pushed

pop_redo_entry(S, fail) ==
    IF S.client /\ ~fail /\ S.rRedo # <<>>
    THEN LET n == Len(S.rRedo)
             l == LoadEntry(S.rRedo[n], S.heap)
         IN [S |-> [S EXCEPT !.rRedo = SubSeq(@, 1, n - 1), !.heap = l.heap],
             ret |-> <<l.entry>>]
    ELSE IF S.mRedo # <<>>
         THEN LET n == Len(S.mRedo)
              IN [S |-> [S EXCEPT !.mRedo = SubSeq(@, 1, n - 1)],
                  ret |-> <<S.mRedo[n]>>]
         ELSE [S |-> S, ret |-> <<>>]

\* clear_history: DEL of the history list (1) and of the redo list (2) in
\* one try block, then both in-memory deques are cleared
clear_history(S, failAt) ==
    LET backing == IF ~S.client \/ failAt = 1 THEN S
                   ELSE IF failAt = 2 THEN [S EXCEPT !.rHist = <<>>]
                   ELSE [S EXCEPT !.rHist = <<>>, !.rRedo = <<>>]
    IN [backing EXCEPT !.mHist = <<>>, !.mRedo = <<>>]

-----------------------------------------------------------------------------
(* app/services/events.py *)

\* broadcast_sse: PUBLISH on the channel when a client exists; a failure is
\* logged and swallowed.  The result says whether the message reached the
\* channel.
broadcast_sse(S, data, fail) == S.client /\ ~fail

-----------------------------------------------------------------------------
(* app/services/batch_operations.py: BatchOperationsManager.               *)
(*                                                                         *)
(* An object is a record of its id and its position, rotation and scale;   *)
(* a position is the x coordinate of {x, y: 0, z: 0}, AbsentPos stands for *)
(* a missing key.  An operation is a record op, category, id, data,        *)
(* position, rotation, scale, where None and AbsentPos stand for missing   *)
(* keys and data is an object record (the keys it supplies).  W is the     *)
(* working copy: the dict town_data, the heap its lists live in, and the   *)
(* number of uuid4() calls made.                                           *)

DELETE_THRESHOLD == 2

Result(success, op, message) ==
    [success |-> success, op |-> op, message |-> message]

\* enumerate(list) up to the first object whose id is object_id; 0: no match
IndexOfId(list, object_id) ==
    IF \E i \in 1..Len(list) : list[i].id = object_id
    THEN CHOOSE i \in 1..Len(list) :
             /\ list[i].id = object_id
             /\ \A j \in 1..(i - 1) : list[j].id # object_id
    ELSE 0

\* list.pop(i)
PopAt(list, i) == SubSeq(list, 1, i - 1) \o SubSeq(list, i + 1, Len(list))

\* _validate_object: a position, when present, must be a mapping with x and y
_validate_object(obj) == obj.position # BadPos

\* {**obj, **data}: the keys of data replace those of obj
Merge(obj, data) ==
    [id |-> IF data.id # None THEN data.id ELSE obj.id,
     position |-> IF data.position # AbsentPos THEN data.position
                  ELSE obj.position,
     rotation |-> IF data.rotation # AbsentPos THEN data.rotation
                  ELSE obj.rotation,
     scale |-> IF data.scale # AbsentPos THEN data.scale ELSE obj.scale]

_create_object(W, op_data, validate) ==
    LET category == op_data.category
        \* town_data[category] = []
        W1 == IF category \in DOMAIN W.town THEN W
              ELSE [W EXCEPT !.heap = Append(@, <<>>),
                             !.town = [c \in DOMAIN W.town \cup {category} |->
                                          IF c = category THEN Len(W.heap) + 1
                                          ELSE W.town[c]]]
        generate == op_data.data.id = None
        data == IF generate
                THEN [op_data.data EXCEPT !.id = ToString(W.uuids + 1)]
                ELSE op_data.data
        W2 == IF generate THEN [W1 EXCEPT !.uuids = @ + 1] ELSE W1
    IN IF category = None
       THEN [W |-> W, res |-> Result(FALSE, "create", "Missing category")]
       ELSE IF validate /\ ~_validate_object(data)
       THEN [W |-> W2,
             res |-> Result(FALSE, "create", "Object validation failed")]
       ELSE [W |-> [W2 EXCEPT !.heap[W2.town[category]] = Append(@, data)],
             res |-> Result(TRUE, "create", "Created")]

_update_object(W, op_data, validate) ==
    LET category == op_data.category
        object_id == op_data.id
    IN IF category = None \/ object_id = None
       THEN [W |-> W,
             res |-> Result(FALSE, "update", "Missing category or id")]
       ELSE IF category \notin DOMAIN W.town
       THEN [W |-> W, res |-> Result(FALSE, "update", "Category not found")]
       ELSE LET r == W.town[category]
                i == IndexOfId(W.heap[r], object_id)
            IN IF i = 0
               THEN [W |-> W,
                     res |-> Result(FALSE, "update", "Object not found")]
               ELSE [W |-> [W EXCEPT !.heap[r][i] = Merge(@, op_data.data)],
                     res |-> Result(TRUE, "update", "Updated")]

\* the squared distance of the proximity scan; a missing position reads as
\* the origin
Distance2(obj, position) ==
    LET x == IF obj.position = AbsentPos THEN 0 ELSE obj.position
    IN (x - position) * (x - position)

\* a scan that ends with the first object of the list
Closest_first(list, position) == 1

\* the index the scan ends with: the first object at the least distance
Closest(list, position) ==
    CHOOSE i \in 1..Len(list) :
        /\ \A j \in 1..Len(list) :
               Distance2(list[i], position) <= Distance2(list[j], position)
        /\ \A j \in 1..(i - 1) :
               Distance2(list[j], position) > Distance2(list[i], position)

_delete_object(W, op_data, validate) ==
    LET category == op_data.category
        object_id == op_data.id
        position == op_data.position
    IN IF category = None
       THEN [W |-> W, res |-> Result(FALSE, "delete", "Missing category")]
       ELSE IF object_id = None /\ position = AbsentPos
       THEN [W |-> W,
             res |-> Result(FALSE, "delete", "Missing both id and position")]
       ELSE IF category \notin DOMAIN W.town
       THEN [W |-> W, res |-> Result(FALSE, "delete", "Category not found")]
       ELSE LET r == W.town[category]
                list == W.heap[r]
            IN IF object_id # None
               THEN LET i == IndexOfId(list, object_id)
                    IN IF i = 0
                       THEN [W |-> W,
                             res |-> Result(FALSE, "delete",
                                            "Object not found")]
                       ELSE [W |-> [W EXCEPT !.heap[r] = PopAt(@, i)],
                             res |-> Result(TRUE, "delete", "Deleted")]
               \* position.get or model_pos.get raises on a value that is
               \* no mapping; _execute_single_operation catches it
               ELSE IF position = BadPos
                       \/ \E i \in 1..Len(list) : list[i].position = BadPos
               THEN [W |-> W, res |-> Result(FALSE, "delete", "exception")]
               ELSE IF /\ list # <<>>
                       /\ Distance2(list[Closest(list, position)], position)
                              < DELETE_THRESHOLD * DELETE_THRESHOLD
               THEN [W |-> [W EXCEPT
                               !.heap[r] = PopAt(@, Closest(list, position))],
                     res |-> Result(TRUE, "delete", "Deleted model")]
               ELSE [W |-> W,
                     res |-> Result(FALSE, "delete", "No model found")]

_edit_object(W, op_data, validate) ==
    LET category == op_data.category
        object_id == op_data.id
        set(old, new) == IF new # AbsentPos THEN new ELSE old
    IN IF category = None \/ object_id = None
       THEN [W |-> W, res |-> Result(FALSE, "edit", "Missing category or id")]
       ELSE IF category \notin DOMAIN W.town
       THEN [W |-> W, res |-> Result(FALSE, "edit", "Category not found")]
       ELSE LET r == W.town[category]
                i == IndexOfId(W.heap[r], object_id)
            IN IF i = 0
               THEN [W |-> W,
                     res |-> Result(FALSE, "edit", "Object not found")]
               ELSE [W |-> [W EXCEPT
                               !.heap[r][i].position =
                                   set(@, op_data.position),
                               !.heap[r][i].rotation =
                                   set(@, op_data.rotation),
                               !.heap[r][i].scale = set(@, op_data.scale)],
                     \* "data": {..., "changes": changes_made}
                     res |-> [success |-> TRUE, op |-> "edit",
                              message |-> "Edited",
                              changes |->
                                  {f \in {"position", "rotation", "scale"} :
                                      op_data[f] # AbsentPos}]]

_execute_single_operation(W, op_data, validate) ==
    CASE op_data.op = "create" -> _create_object(W, op_data, validate)
      [] op_data.op = "update" -> _update_object(W, op_data, validate)
      [] op_data.op = "delete" -> _delete_object(W, op_data, validate)
      [] op_data.op = "edit" -> _edit_object(W, op_data, validate)
      [] OTHER -> [W |-> W,
                   res |-> Result(FALSE, op_data.op, "Unknown operation type")]

\* the loop of execute_operations: every operation is applied, also after
\* one has failed
RECURSIVE RunOperations(_, _, _, _)
RECURSIVE ResultAppended(_, _, _, _)
RunOperations(W, operations, validate, results) ==
    IF operations = <<>> THEN [W |-> W, results |-> results]
    ELSE ResultAppended(
             _execute_single_operation(W, Head(operations), validate),
             Tail(operations), validate, results)

\* results.append(result), and the loop goes on with the working copy as
\* the operation left it
ResultAppended(r, operations, validate, results) ==
    RunOperations(r.W, operations, validate, Append(results, r.res))

Count(results, success) ==
    Cardinality({i \in 1..Len(results) : results[i].success = success})

\* lines 59-66: every operation succeeded; the working copy has been
\* written and recorded (S), and the full event is handed to broadcast_sse
Committed(S, run, event, F) ==
    [S |-> S, results |-> run.results,
     successful |-> Count(run.results, TRUE), failed |-> 0,
     event |-> <<event>>, delivered |-> broadcast_sse(S, event, F.pub)]

\* an execute_operations that commits only when an operation succeeded
Settled_skipping_empty(S, original_town_data, run, F) ==
    IF Count(run.results, FALSE) = 0 /\ run.results # <<>>
    THEN Committed(add_entry(set_town_data(S, run.W.town, F.set), "batch",
                             original_town_data, run.W.town, F.add),
                   run,
                   [type |-> "full", town |-> Dump(run.W.town, run.W.heap)],
                   F)
    ELSE [S |-> S, results |-> run.results,
          successful |-> Count(run.results, TRUE),
          failed |-> Count(run.results, FALSE),
          event |-> <<>>, delivered |-> FALSE]

\* lines 54-71: S holds the lists as the operations left them, changed in
\* place; with no failed operation the working copy is written and an
\* entry added, else nothing more is done
Settled(S, original_town_data, run, F) ==
    IF Count(run.results, FALSE) = 0
    THEN Committed(add_entry(set_town_data(S, run.W.town, F.set), "batch",
                             original_town_data, run.W.town, F.add),
                   run,
                   [type |-> "full", town |-> Dump(run.W.town, run.W.heap)],
                   F)
    ELSE [S |-> S, results |-> run.results,
          successful |-> Count(run.results, TRUE),
          failed |-> Count(run.results, FALSE),
          event |-> <<>>, delivered |-> FALSE]

\* lines 41-52: the operations have run on town_data; what they did to the
\* lists is in the heap, whatever comes next
Ran(S, original_town_data, run, F) ==
    Settled([S EXCEPT !.heap = run.W.heap, !.uuids = run.W.uuids],
            original_town_data, run, F)

\* an execute_operations that applies every operation to the store as the
\* batch met it
Executed_apart(g, operations, validate, F) ==
    Ran(g.S, ShallowCopy(g.ret),
        [W |-> IF operations = <<>>
               THEN [town |-> g.ret, heap |-> g.S.heap, uuids |-> g.S.uuids]
               ELSE _execute_single_operation(
                        [town |-> g.ret, heap |-> g.S.heap,
                         uuids |-> g.S.uuids],
                        operations[Len(operations)], validate).W,
         results |-> [i \in 1..Len(operations) |->
                         _execute_single_operation(
                             [town |-> g.ret, heap |-> g.S.heap,
                              uuids |-> g.S.uuids],
                             operations[i], validate).res]], F)

\* lines 35-38: g is what get_town_data returned; original_town_data is
\* town_data.copy()
Executed(g, operations, validate, F) ==
    Ran(g.S, ShallowCopy(g.ret),
        RunOperations([town |-> g.ret, heap |-> g.S.heap,
                       uuids |-> g.S.uuids],
                      operations, validate, <<>>), F)

\* execute_operations.  F names the backing calls that fail: get, set,
\* add (the call of add_entry that raises) and pub.
execute_operations(S, operations, validate, F) ==
    Executed(get_town_data(S, F.get), operations, validate, F)

-----------------------------------------------------------------------------
(* app/routes/history.py.  F names the backing calls that fail: can, pop,  *)
(* set, push (the call of push_redo_entry that raises), add, pub.  The     *)
(* can_undo and can_redo fields of a success response are not kept.        *)

Response(S, status, detail, event, delivered) ==
    [S |-> S, status |-> status, detail |-> detail, event |-> event,
     delivered |-> delivered]

\* a Broadcast that surfaces a failed PUBLISH to the mutation's caller
Broadcast_raising(S, detail, event, F) ==
    Response(S, IF broadcast_sse(S, event, F.pub) THEN "success" ELSE "500",
             detail, <<event>>, broadcast_sse(S, event, F.pub))

\* lines 88-96 and 150-158: the state was written and the entry moved to
\* the other stack (S); the full event is handed to broadcast_sse
Broadcast(S, detail, event, F) ==
    Response(S, "success", detail, <<event>>, broadcast_sse(S, event, F.pub))

\* lines 66-86: p is what pop_last_entry returned; every entry is created
\* with a before_state, so the "no previous state" exit is not taken
Undone(p, F) ==
    IF p.ret = <<>>
    THEN Response(p.S, "400", "Failed to get last operation", <<>>, FALSE)
    ELSE Broadcast(push_redo_entry(
                       set_town_data(p.S, p.ret[1].before_state, F.set),
                       p.ret[1], F.push),
                   "Undid",
                   [type |-> "full",
                    town |-> Dump(p.ret[1].before_state, p.S.heap)], F)

\* an undo_operation that answers an empty history stack with a success
undo_operation_lenient(S, F) ==
    IF ~can_undo(S, F.can)
    THEN Response(S, "success", "Nothing to undo", <<>>, FALSE)
    ELSE Undone(pop_last_entry(S, F.pop), F)

\* undo_operation
undo_operation(S, F) ==
    IF ~can_undo(S, F.can)
    THEN Response(S, "400", "Nothing to undo", <<>>, FALSE)
    ELSE Undone(pop_last_entry(S, F.pop), F)

\* lines 122-148: p is what pop_redo_entry returned
Redone(p, F) ==
    IF p.ret = <<>>
    THEN Response(p.S, "400", "Failed to get redo operation", <<>>, FALSE)
    ELSE Broadcast(add_entry(set_town_data(p.S, p.ret[1].after_state, F.set),
                             p.ret[1].operation, p.ret[1].before_state,
                             p.ret[1].after_state, F.add),
                   "Redid",
                   [type |-> "full",
                    town |-> Dump(p.ret[1].after_state, p.S.heap)], F)

\* redo_operation
redo_operation(S, F) ==
    IF ~can_redo(S, F.can)
    THEN Response(S, "400", "Nothing to redo", <<>>, FALSE)
    ELSE Redone(pop_redo_entry(S, F.pop), F)

-----------------------------------------------------------------------------
(* The requests drawn *)

\* what a get_town_data answered by the backing returns, as a document
StoreView(S) ==
    LET g == get_town_data(S, FALSE)
    IN Dump(g.ret, g.S.heap)

NoFault ==
    [get |-> FALSE, set |-> FALSE, can |-> FALSE, pop |-> FALSE, push |-> 0,
     add |-> 0, pub |-> FALSE, clear |-> 0, hist |-> FALSE]

\* the backing is down for the whole request
Down ==
    [get |-> TRUE, set |-> TRUE, can |-> TRUE, pop |-> TRUE, push |-> 1,
     add |-> 1, pub |-> TRUE, clear |-> 1, hist |-> TRUE]

\* no failing call, one failing call, or the backing down
BatchFaults ==
    {NoFault, Down, [NoFault EXCEPT !.get = TRUE],
     [NoFault EXCEPT !.set = TRUE], [NoFault EXCEPT !.pub = TRUE]}
    \cup {[NoFault EXCEPT !.add = a] : a \in 1..4}

UndoFaults ==
    {NoFault, Down, [NoFault EXCEPT !.can = TRUE],
     [NoFault EXCEPT !.pop = TRUE], [NoFault EXCEPT !.set = TRUE],
     [NoFault EXCEPT !.pub = TRUE]}
    \cup {[NoFault EXCEPT !.push = a] : a \in 1..3}

RedoFaults ==
    {NoFault, Down, [NoFault EXCEPT !.can = TRUE],
     [NoFault EXCEPT !.pop = TRUE], [NoFault EXCEPT !.set = TRUE],
     [NoFault EXCEPT !.pub = TRUE]}
    \cup {[NoFault EXCEPT !.add = a] : a \in 1..4}

NoData ==
    [id |-> None, position |-> AbsentPos, rotation |-> AbsentPos,
     scale |-> AbsentPos]

Op(op, category, id, data, position) ==
    [op |-> op, category |-> category, id |-> id, data |-> data,
     position |-> position, rotation |-> AbsentPos, scale |-> AbsentPos]

\* the operations drawn: a create into an existing category, a create into
\* a new one, a delete by id, and an unknown operation type
Operations ==
    {Op("create", "buildings", None,
        [NoData EXCEPT !.id = "a", !.position = 0], AbsentPos),
     Op("create", "vehicles", None, [NoData EXCEPT !.id = "b"], AbsentPos),
     Op("delete", "buildings", "a", NoData, AbsentPos),
     Op("move", "buildings", "a", NoData, AbsentPos)}

Batches ==
    UNION {[1..n -> Operations] : n \in 0..MaxOps}

MaxLimit == 2

-----------------------------------------------------------------------------
(* The state machine *)

\* the last request: its kind, its response, the event handed to
\* broadcast_sse and whether it reached the channel
\* the stacks as get_history shows their entries, oldest first: the
\* backing's list, then the in-memory deque
HistoryDocs(S) ==
    S.rHist \o [i \in 1..Len(S.mHist) |-> DumpEntry(S.mHist[i], S.heap)]

RedoDocs(S) ==
    S.rRedo \o [i \in 1..Len(S.mRedo) |-> DumpEntry(S.mRedo[i], S.heap)]

\* What the last request answered, and what it met: pre holds the sizes of
\* the two stacks when the request arrived.
Out(req, status, detail, results, event, delivered, history) ==
    [req |-> req, status |-> status, detail |-> detail, results |-> results,
     event |-> event, delivered |-> delivered, history |-> history,
     pre |-> [history |-> Len(HistoryDocs(Cur)), redo |-> Len(RedoDocs(Cur))]]

\* The observer.  A committed batch M is watched with the documents a
\* get_town_data returned before it (P) and after it (Q); an undo right
\* after M, and a redo right after that undo, move the stage on; any other
\* request ends the watch.
Watch(req, status, S) ==
    IF req = "batch" /\ status = "success"
    THEN <<[stage |-> "committed", P |-> StoreView(Cur), Q |-> StoreView(S)]>>
    ELSE IF /\ req = "undo" /\ status = "success"
            /\ watch # <<>> /\ watch[1].stage = "committed"
    THEN <<[watch[1] EXCEPT !.stage = "undone"]>>
    ELSE IF /\ req = "redo" /\ status = "success"
            /\ watch # <<>> /\ watch[1].stage = "undone"
    THEN <<[watch[1] EXCEPT !.stage = "redone"]>>
    ELSE <<>>

\* The observer of the store's callers.  A set_town_data(s) is watched with
\* s; the gets that follow keep the watch, any other call ends it.
WatchStore(response) ==
    IF response.req = "set"
    THEN <<[stage |-> "set", P |-> response.town, Q |-> response.town]>>
    ELSE IF response.req = "get" /\ watch # <<>> /\ watch[1].stage = "set"
    THEN watch
    ELSE <<>>

\* the process has started; the backing, when there is one, is empty
Started ==
    /\ r_town_data = <<>>
    /\ r_town_history = <<>>
    /\ r_town_redo = <<>>
    \* _town_data_storage = DEFAULT_TOWN_DATA.copy()
    /\ heap = <<<<>>>>
    /\ _town_data_storage = [c \in DefaultCategories |-> 1]
    /\ _history_stack = <<>>
    /\ _redo_stack = <<>>
    /\ uuid_count = 0
    /\ faults = 0
    /\ out = [req |-> "start", status |-> "", detail |-> "", results |-> <<>>,
              event |-> <<>>, delivered |-> FALSE, history |-> <<>>,
              pre |-> [history |-> 0, redo |-> 0]]
    /\ watch = <<>>
    /\ r_snapshots = [list |-> <<>>, data |-> {}]
    /\ snapshot_count = 0
    /\ reqs = <<>>
    /\ _connected_users = {}
    /\ now = 0
    /\ streams = <<>>
    /\ channel = <<>>

\* no backing, or a backing that answers every call
Init ==
    /\ redis_client \in BOOLEAN
    /\ flaky = FALSE
    /\ snapshot_client = FALSE
    /\ Started

\* a behaviour creates at most `entries` history entries, and no list grows
\* beyond MaxObjects
Bounded(S, entries) ==
    /\ S.uuids <= entries
    /\ \A r \in 1..Len(S.heap) : Len(S.heap[r]) <= MaxObjects

\* a request may meet failing backing calls only when a client exists
Fault(F) ==
    /\ F # NoFault => redis_client /\ flaky /\ faults < MaxFaults
    /\ faults' = IF F = NoFault THEN faults ELSE faults + 1

\* the stores a request leaves (T), and its response
Installed(T, response, entries) ==
    /\ Bounded(T, entries)
    /\ r_town_data' = T.rTown
    /\ r_town_history' = T.rHist
    /\ r_town_redo' = T.rRedo
    /\ heap' = T.heap
    /\ _town_data_storage' = T.mTown
    /\ _history_stack' = T.mHist
    /\ _redo_stack' = T.mRedo
    /\ uuid_count' = T.uuids
    /\ out' = response
    /\ watch' = IF response.req \in {"set", "get", "modify"}
                 THEN WatchStore(response)
                 ELSE Watch(response.req, response.status, T)
    /\ r_snapshots' = T.rSnaps
    /\ snapshot_count' = T.snapIds
    /\ UNCHANGED <<redis_client, flaky, snapshot_client, reqs,
                   _connected_users, now, streams, channel>>

\* the request ends; lists no one refers to any more are dropped
Install(S, response, entries) == Installed(Collect(S), response, entries)

\* BatchOperationResponse: "success" when no operation failed
BatchResponse(r, entries) ==
    Install(r.S, Out("batch", IF r.failed = 0 THEN "success" ELSE "partial",
                     "", r.results, r.event, r.delivered, <<>>), entries)

\* the response of an undo or a redo, and HTTPException 400
HistoryResponse(req, r, entries) ==
    Install(r.S, Out(req, r.status, r.detail, <<>>, r.event, r.delivered,
                     <<>>), entries)

\* POST /api/batch/operations
BatchOf(batches, validates, entries) ==
    \E operations \in batches, validate \in validates, F \in BatchFaults :
        /\ Fault(F)
        /\ BatchResponse(execute_operations(Cur, operations, validate, F),
                         entries)

Batch == BatchOf(Batches, {TRUE}, MaxEntries)

\* POST /api/history/undo
UndoOf(entries) ==
    \E F \in UndoFaults :
        /\ Fault(F)
        /\ HistoryResponse("undo", undo_operation(Cur, F), entries)

Undo == UndoOf(MaxEntries)

\* POST /api/history/redo
Redo ==
    \E F \in RedoFaults :
        /\ Fault(F)
        /\ HistoryResponse("redo", redo_operation(Cur, F), MaxEntries)

\* DELETE /api/history
ClearHistory ==
    \E a \in 0..2 :
        /\ Fault([NoFault EXCEPT !.clear = a])
        /\ Install(clear_history(Cur, a),
                   Out("clear", "success", "", <<>>, <<>>, FALSE, <<>>),
                   MaxEntries)

\* GET /api/history?limit=
GetHistoryOf(limits, entries) ==
    \E limit \in limits, f \in BOOLEAN :
        /\ Fault([NoFault EXCEPT !.hist = f])
        /\ Install(Cur, Out("history", "success", "", <<>>, <<>>, FALSE,
                            get_history(Cur, limit, f)), entries)

GetHistory == GetHistoryOf(1..MaxLimit, MaxEntries)

Next == Batch \/ Undo \/ Redo \/ ClearHistory \/ GetHistory

Spec == Init /\ [][Next]_vars

-----------------------------------------------------------------------------
(* The history stack filled beyond MAX_HISTORY_SIZE: batches without       *)
(* operations are committed, the whole of the stack is read, and when      *)
(* MaxCommits entries have been created the commits are undone.            *)

Commit == BatchOf({<<>>}, {TRUE}, MaxCommits)

Unwind == uuid_count = MaxCommits /\ UndoOf(MaxCommits)

GetWholeHistory == GetHistoryOf({MAX_HISTORY_SIZE + 1}, MaxCommits)

NextCapacity == Commit \/ Unwind \/ GetWholeHistory

SpecCapacity == Init /\ [][NextCapacity]_vars

-----------------------------------------------------------------------------
(* The callers of app/services/storage.py: a caller writes a document with *)
(* set_town_data, reads one with get_town_data, or changes in place the    *)
(* value a get_town_data returned and writes nothing.  Here the backing,   *)
(* when there is one, may fail single calls.                               *)

\* the documents written
ObjectA == [id |-> "a", position |-> 0, rotation |-> AbsentPos,
            scale |-> AbsentPos]

Towns ==
    {[buildings |-> <<>>], [buildings |-> <<ObjectA>>],
     [buildings |-> <<>>, vehicles |-> <<ObjectA>>]}

\* what a caller of the store did: the document it passed or was returned
StoreOut(req, town) == [req |-> req, status |-> "success", town |-> town]

\* the caller's dict l.town, built from the document s, is written
SetDone(l, s, fail) ==
    Install(set_town_data([Cur EXCEPT !.heap = l.heap], l.town, fail),
            StoreOut("set", s), MaxEntries)

SetTown ==
    \E s \in Towns, fail \in BOOLEAN :
        /\ Fault([NoFault EXCEPT !.set = fail])
        /\ SetDone(Load(s, heap), s, fail)

\* g is what get_town_data returned
GetDone(g) == Install(g.S, StoreOut("get", Dump(g.ret, g.S.heap)), MaxEntries)

GetTown ==
    \E fail \in BOOLEAN :
        /\ Fault([NoFault EXCEPT !.get = fail])
        /\ GetDone(get_town_data(Cur, fail))

\* a list after the caller's change: an append, the removal of its first
\* object, or a change of a field of its first object
Edited(list, edit) ==
    CASE edit = "append" -> Append(list, ObjectA)
      [] edit = "remove" -> Tail(list)
      [] edit = "change" -> <<[Head(list) EXCEPT !.position = 3]>> \o Tail(list)

\* the caller changes, in place, the list of category c of the value g.ret
\* it was returned
Modified(g, c, edit) ==
    /\ c \in DOMAIN g.ret
    /\ edit # "append" => g.S.heap[g.ret[c]] # <<>>
    /\ Install([g.S EXCEPT !.heap[g.ret[c]] = Edited(@, edit)],
               StoreOut("modify", <<>>), MaxEntries)

ModifyReturned ==
    \E fail \in BOOLEAN, c \in Categories,
       edit \in {"append", "remove", "change"} :
        /\ Fault([NoFault EXCEPT !.get = fail])
        /\ Modified(get_town_data(Cur, fail), c, edit)

InitStore ==
    /\ redis_client \in BOOLEAN
    /\ flaky = redis_client
    /\ snapshot_client = FALSE
    /\ Started

NextStore == SetTown \/ GetTown \/ ModifyReturned

SpecStore == InitStore /\ [][NextStore]_vars

-----------------------------------------------------------------------------
(* app/services/snapshots.py: SnapshotManager.  The manager takes its      *)
(* client from get_redis_client() when it is constructed, at import; its   *)
(* methods call that client with no check, so without one create_snapshot  *)
(* raises and the readers return None.  A snapshot's metadata is modelled  *)
(* by its id; ids are 1, 2, ... in the order of the uuid4() calls.         *)

MAX_SNAPSHOTS == 50

MaxSnapshots == 2

\* create_snapshot: SET of the data key, RPUSH of the metadata, and over
\* MAX_SNAPSHOTS the oldest snapshot's data key is deleted and the list
\* trimmed.  ret is <<>> when the call raised.
create_snapshot(S, town_data) ==
    LET id == S.snapIds + 1
        S0 == [S EXCEPT !.snapIds = id]
        data == S.rSnaps.data \cup {[id |-> id,
                                     data |-> Dump(town_data, S.heap)]}
        list == Append(S.rSnaps.list, id)
    IN IF ~S.sClient THEN [S |-> S0, ret |-> <<>>]
       ELSE IF Len(list) > MAX_SNAPSHOTS
       THEN [S |-> [S0 EXCEPT !.rSnaps =
                       [list |-> LTrim(list, MAX_SNAPSHOTS),
                        data |-> {d \in data : d.id # list[1]}]],
             ret |-> <<id>>]
       ELSE [S |-> [S0 EXCEPT !.rSnaps = [list |-> list, data |-> data]],
             ret |-> <<id>>]

\* a get_snapshot that reads the newest snapshot's data key
get_snapshot_newest(S, snapshot_id) ==
    IF S.sClient /\ \E d \in S.rSnaps.data : d.id = snapshot_id
    THEN <<(CHOOSE d \in S.rSnaps.data :
                \A e \in S.rSnaps.data : e.id <= d.id).data>>
    ELSE <<>>

\* get_snapshot: the document under the data key, or <<>> for None
get_snapshot(S, snapshot_id) ==
    IF S.sClient /\ \E d \in S.rSnaps.data : d.id = snapshot_id
    THEN <<(CHOOSE d \in S.rSnaps.data : d.id = snapshot_id).data>>
    ELSE <<>>

\* get_snapshot_metadata: the list entry with that id, or <<>> for None
get_snapshot_metadata(S, snapshot_id) ==
    IF /\ S.sClient
       /\ \E i \in 1..Len(S.rSnaps.list) : S.rSnaps.list[i] = snapshot_id
    THEN <<snapshot_id>>
    ELSE <<>>

\* delete_snapshot: DEL of the data key, then the list is rewritten
\* without the entries of that id; True unless a call raised
delete_snapshot(S, snapshot_id) ==
    IF ~S.sClient THEN [S |-> S, ret |-> FALSE]
    ELSE [S |-> [S EXCEPT !.rSnaps =
                    [list |-> SelectSeq(S.rSnaps.list,
                                        LAMBDA i : i # snapshot_id),
                     data |-> {d \in S.rSnaps.data : d.id # snapshot_id}]],
          ret |-> TRUE]

-----------------------------------------------------------------------------
(* app/routes/snapshots.py *)

\* lines 41-57: c is what create_snapshot returned
SnapshotCreated(c) ==
    IF c.ret = <<>> \/ get_snapshot_metadata(c.S, c.ret[1]) = <<>>
    THEN Response(c.S, "500", "", <<>>, FALSE)
    ELSE Response(c.S, "success", "Created", <<>>, FALSE)

\* create_snapshot (POST /api/snapshots)
create_snapshot_route(g) == SnapshotCreated(create_snapshot(g.S, g.ret))

\* a restore that records itself as a history entry
Restored_recording(S, l, document, snapshot_id, F) ==
    Broadcast(add_entry(set_town_data([S EXCEPT !.heap = l.heap], l.town,
                                      F.set),
                        "restore", S.mTown, l.town, 0),
              "Restored", [type |-> "full", town |-> document], F)

\* lines 150-163: l is the snapshot loaded from its document; the store is
\* written, the full event handed to broadcast_sse, the metadata read
Restored(S, l, document, snapshot_id, F) ==
    IF get_snapshot_metadata(S, snapshot_id) = <<>>
    THEN Response(set_town_data([S EXCEPT !.heap = l.heap], l.town, F.set),
                  "500", "", <<[type |-> "full", town |-> document]>>,
                  broadcast_sse(S, document, F.pub))
    ELSE Broadcast(set_town_data([S EXCEPT !.heap = l.heap], l.town, F.set),
                   "Restored", [type |-> "full", town |-> document], F)

\* lines 144-147: d is what get_snapshot returned; None and an empty
\* document are "not snapshot_data"
Found(S, d, snapshot_id, F) ==
    IF d = <<>> \/ DOMAIN d[1] = {}
    THEN Response(S, "404", "Snapshot not found", <<>>, FALSE)
    ELSE Restored(S, Load(d[1], S.heap), d[1], snapshot_id, F)

\* restore_snapshot (POST /api/snapshots/{snapshot_id}/restore)
restore_snapshot(S, snapshot_id, F) ==
    Found(S, get_snapshot(S, snapshot_id), snapshot_id, F)

\* POST /api/snapshots
CreateSnapshot ==
    /\ snapshot_count < MaxSnapshots
    /\ Fault(NoFault)
    /\ HistoryResponse("snapshot", create_snapshot_route(
                                       get_town_data(Cur, FALSE)),
                       MaxEntries)

\* POST /api/snapshots/{snapshot_id}/restore
RestoreOf(Fs) ==
    \E snapshot_id \in 1..MaxSnapshots, F \in Fs :
        /\ Fault(F)
        /\ HistoryResponse("restore", restore_snapshot(Cur, snapshot_id, F),
                           MaxEntries)

-----------------------------------------------------------------------------
(* Requests that meet a failing PUBLISH and no other failing call: the     *)
(* backing answers every call but the one broadcast_sse makes.             *)

PubFaults == {NoFault, [NoFault EXCEPT !.pub = TRUE]}

\* the batches of at most one operation
SmallBatches == {b \in Batches : Len(b) <= 1}

PublishingBatch ==
    \E operations \in SmallBatches, F \in PubFaults :
        /\ Fault(F)
        /\ BatchResponse(execute_operations(Cur, operations, TRUE, F),
                         MaxEntries)

PublishingUndo ==
    \E F \in PubFaults :
        /\ Fault(F)
        /\ HistoryResponse("undo", undo_operation(Cur, F), MaxEntries)

PublishingRedo ==
    \E F \in PubFaults :
        /\ Fault(F)
        /\ HistoryResponse("redo", redo_operation(Cur, F), MaxEntries)

PublishingRestore == RestoreOf(PubFaults)

\* with a backing the snapshot manager has the client or, constructed
\* before the client was, has none
InitPublish ==
    /\ redis_client \in BOOLEAN
    /\ flaky = redis_client
    /\ snapshot_client \in {FALSE, redis_client}
    /\ Started

NextPublish ==
    \/ PublishingBatch
    \/ PublishingUndo
    \/ PublishingRedo
    \/ CreateSnapshot
    \/ PublishingRestore

SpecPublish == InitPublish /\ [][NextPublish]_vars

-----------------------------------------------------------------------------
(* Requests in progress at the same time.  With a client every call of a   *)
(* route to storage, history or events awaits the backing, and another     *)
(* request may run while it waits; a step below is one such call, run to   *)
(* its end.  execute_operations is a plain function and runs in one step;  *)
(* get_snapshot is a plain method, so a restore runs from its start to the *)
(* end of set_town_data in one step.  A request in progress keeps what it  *)
(* read as documents: the backing returned them, so they share no list     *)
(* with the stores.                                                        *)

MaxRequests == 2

\* the entries and the snapshots created while requests are stepped
StepEntries == 2

StepSnapshots == 1

\* the batches stepped: one create, into an existing or a new category
StepBatches ==
    {b \in SmallBatches : Len(b) = 1 /\ b[1].op = "create"}

Request(kind, pc, entry, town, id) ==
    [kind |-> kind, pc |-> pc, entry |-> entry, town |-> town, id |-> id]

\* the requests in progress without the i-th
Without(i) ==
    [j \in 1..(Len(reqs) - 1) |-> IF j < i THEN reqs[j] ELSE reqs[j + 1]]

\* a request waits for the backing's answer
Waiting == Out("await", "", "", <<>>, <<>>, FALSE, <<>>)

\* The observer.  base is the stores when a request started with no other
\* in progress; kinds are that request and those started before the stores
\* were next left alone.
Observed(d) ==
    IF reqs = <<>>
    THEN <<[base |-> Cur, kinds |-> <<d>>]>>
    ELSE <<[watch[1] EXCEPT !.kinds = Append(@, d)]>>

CanStart ==
    /\ Len(reqs) < MaxRequests
    /\ reqs # <<>> => Len(watch[1].kinds) < MaxRequests

\* the stores a step leaves (T)
Awaited(T, response, rs, w) ==
    /\ Bounded(T, StepEntries)
    /\ r_town_data' = T.rTown
    /\ r_town_history' = T.rHist
    /\ r_town_redo' = T.rRedo
    /\ heap' = T.heap
    /\ _town_data_storage' = T.mTown
    /\ _history_stack' = T.mHist
    /\ _redo_stack' = T.mRedo
    /\ uuid_count' = T.uuids
    /\ r_snapshots' = T.rSnaps
    /\ snapshot_count' = T.snapIds
    /\ out' = response
    /\ reqs' = rs
    /\ watch' = w
    /\ UNCHANGED <<redis_client, flaky, snapshot_client, faults,
                   _connected_users, now, streams, channel>>

Await(S, response, rs, w) == Awaited(Collect(S), response, rs, w)

\* execute_operations, in one step
BatchStepped(r, w) ==
    Await(r.S, Out("batch", IF r.failed = 0 THEN "success" ELSE "partial",
                   "", r.results, r.event, r.delivered, <<>>), reqs, w)

StepBatch ==
    \E operations \in StepBatches :
        /\ CanStart
        /\ BatchStepped(execute_operations(Cur, operations, TRUE, NoFault),
                        Observed([kind |-> "batch", arg |-> operations]))

\* history.py line 64 and line 120: can_undo, can_redo
StepCan ==
    \E kind \in {"undo", "redo"} :
        /\ CanStart
        /\ IF kind = "undo" THEN can_undo(Cur, FALSE)
                            ELSE can_redo(Cur, FALSE)
        /\ Await(Cur, Waiting,
                 Append(reqs, Request(kind, "pop", <<>>, <<>>, 0)),
                 Observed([kind |-> kind, arg |-> <<>>]))

\* HTTPException 400: nothing to undo, nothing to redo
StepRefuse ==
    \E kind \in {"undo", "redo"} :
        /\ CanStart
        /\ ~ IF kind = "undo" THEN can_undo(Cur, FALSE)
                              ELSE can_redo(Cur, FALSE)
        /\ Await(Cur, Out(kind, "400", "Nothing to " \o kind, <<>>, <<>>,
                          FALSE, <<>>),
                 reqs, Observed([kind |-> kind, arg |-> <<>>]))

\* lines 68-74 and 124-130: p is what the pop returned
Popped(i, p) ==
    IF p.ret = <<>>
    THEN Await(p.S, Out(reqs[i].kind, "400", "Failed to get operation",
                        <<>>, <<>>, FALSE, <<>>), Without(i), watch)
    ELSE Await(p.S, Waiting,
               [reqs EXCEPT ![i] =
                   Request(@.kind, "set", <<DumpEntry(p.ret[1], p.S.heap)>>,
                           <<Dump(IF @.kind = "undo"
                                  THEN p.ret[1].before_state
                                  ELSE p.ret[1].after_state, p.S.heap)>>, 0)],
               watch)

StepPop ==
    \E i \in 1..Len(reqs) :
        /\ reqs[i].pc = "pop"
        /\ Popped(i, IF reqs[i].kind = "undo"
                     THEN pop_last_entry(Cur, FALSE)
                     ELSE pop_redo_entry(Cur, FALSE))

\* lines 80 and 136: set_town_data; l is the state to write
StateSet(i, l) ==
    Await(set_town_data([Cur EXCEPT !.heap = l.heap], l.town, FALSE),
          Waiting, [reqs EXCEPT ![i].pc = "move"], watch)

StepSet ==
    \E i \in 1..Len(reqs) :
        /\ reqs[i].pc = "set"
        /\ StateSet(i, Load(reqs[i].town[1], heap))

\* lines 83 and 139-144: push_redo_entry, add_entry; l is the entry
EntryMoved(i, S, l) ==
    Await(IF reqs[i].kind = "undo"
          THEN push_redo_entry(S, l.entry, 0)
          ELSE add_entry(S, l.entry.operation, l.entry.before_state,
                         l.entry.after_state, 0),
          Waiting, [reqs EXCEPT ![i].pc = "pub"], watch)

EntryLoaded(i, l) == EntryMoved(i, [Cur EXCEPT !.heap = l.heap], l)

StepMove ==
    \E i \in 1..Len(reqs) :
        /\ reqs[i].pc = "move"
        /\ EntryLoaded(i, LoadEntry(reqs[i].entry[1], heap))

\* snapshots.py lines 144-150: d is what get_snapshot returned
SnapshotGot(d, snapshot_id, w) ==
    IF d = <<>> \/ DOMAIN d[1] = {}
    THEN Await(Cur, Out("restore", "404", "Snapshot not found", <<>>, <<>>,
                        FALSE, <<>>), reqs, w)
    ELSE LET l == Load(d[1], heap)
         IN Await(set_town_data([Cur EXCEPT !.heap = l.heap], l.town, FALSE),
                  Waiting,
                  Append(reqs, Request("restore", "pub", <<>>, d,
                                       snapshot_id)), w)

StepRestore ==
    \E snapshot_id \in 1..StepSnapshots :
        /\ CanStart
        /\ SnapshotGot(get_snapshot(Cur, snapshot_id), snapshot_id,
                       Observed([kind |-> "restore",
                                 arg |-> <<snapshot_id>>]))

\* lines 86-96, 147-158 and snapshots.py lines 153-163: broadcast_sse and
\* the response
Published(i, event) ==
    Await(Cur,
          Out(reqs[i].kind,
              IF /\ reqs[i].kind = "restore"
                 /\ get_snapshot_metadata(Cur, reqs[i].id) = <<>>
              THEN "500" ELSE "success",
              "", <<>>, <<event>>, broadcast_sse(Cur, event, FALSE), <<>>),
          Without(i), watch)

StepPublish ==
    \E i \in 1..Len(reqs) :
        /\ reqs[i].pc = "pub"
        /\ Published(i, [type |-> "full", town |-> reqs[i].town[1]])

\* POST /api/snapshots, while no other request is in progress
SnapshotStepped(r) ==
    Await(r.S, Out("snapshot", r.status, "", <<>>, <<>>, FALSE, <<>>),
          reqs, watch)

StepSnapshot ==
    /\ reqs = <<>>
    /\ snapshot_count < StepSnapshots
    /\ SnapshotStepped(create_snapshot_route(get_town_data(Cur, FALSE)))

\* a backing that answers every call; the snapshot manager has the client
InitSteps ==
    /\ redis_client = TRUE
    /\ flaky = FALSE
    /\ snapshot_client = TRUE
    /\ Started

NextSteps ==
    \/ StepBatch
    \/ StepCan
    \/ StepRefuse
    \/ StepPop
    \/ StepSet
    \/ StepMove
    \/ StepRestore
    \/ StepPublish
    \/ StepSnapshot

SpecSteps == InitSteps /\ [][NextSteps]_vars

\* the stores after request d has run alone, from its start to its end
Serve(S, d) ==
    CASE d.kind = "batch" ->
             execute_operations(S, d.arg, TRUE, NoFault).S
      [] d.kind = "undo" -> undo_operation(S, NoFault).S
      [] d.kind = "redo" -> redo_operation(S, NoFault).S
      [] d.kind = "restore" -> restore_snapshot(S, d.arg[1], NoFault).S

\* the entries of a stack without their ids
Unnamed(q) ==
    [i \in 1..Len(q) |-> [operation |-> q[i].operation,
                          before_state |-> q[i].before_state,
                          after_state |-> q[i].after_state]]

\* the Scene Store, the history stack and the redo stack
View(S) ==
    [town |-> StoreView(S), history |-> Unnamed(HistoryDocs(S)),
     redo |-> Unnamed(RedoDocs(S))]

-----------------------------------------------------------------------------
(* app/services/events.py: presence and the event stream.  Time is         *)
(* time.time() in whole seconds.  _connected_users is the set of its       *)
(* items; a roster is the set of its keys.  A subscription is the queue of *)
(* the messages published on the channel since SUBSCRIBE and not yet       *)
(* returned by get_message.                                                *)

Names == {"alice", "bob"}

\* player_name: None and "" are both "not player_name"
NoName == ""

TIMEOUT == 30

KEEPALIVE == 10

\* _connected_users[name] = time.time()
Touch(users, name, t) ==
    {u \in users : u.name # name} \cup {[name |-> name, ts |-> t]}

\* del _connected_users[name]
Delete(users, name) == {u \in users : u.name # name}

Keys(users) == {u.name : u \in users}

\* a get_online_users that also removes a user last seen 30 seconds ago
get_online_users_at_30(users, t) ==
    [users |-> {u \in users : ~(t - u.ts >= TIMEOUT)},
     ret |-> Keys({u \in users : ~(t - u.ts >= TIMEOUT)})]

\* get_online_users: the names last seen more than 30 seconds ago are
\* removed from the map, the remaining keys returned
get_online_users(users, t) ==
    [users |-> {u \in users : ~(t - u.ts > TIMEOUT)},
     ret |-> Keys({u \in users : ~(t - u.ts > TIMEOUT)})]

-----------------------------------------------------------------------------
(* The presence map on its own: names are touched, time passes, and        *)
(* get_online_users is called.                                             *)

MaxSeconds == 32

\* what does not change when only presence and the clock do
Idle ==
    UNCHANGED <<redis_client, flaky, r_town_data, r_town_history,
                r_town_redo, heap, _town_data_storage, _history_stack,
                _redo_stack, uuid_count, faults, watch, snapshot_client,
                r_snapshots, snapshot_count, reqs>>

\* time passes
TickOf(seconds, last) ==
    /\ now + seconds <= last
    /\ now' = now + seconds
    /\ out' = [req |-> "tick"]
    /\ UNCHANGED <<_connected_users, streams, channel>>
    /\ Idle

Tick == TickOf(1, MaxSeconds)

\* lines 78, 104 and 110: a stream touches its name
TouchUser ==
    \E name \in Names :
        /\ _connected_users' = Touch(_connected_users, name, now)
        /\ out' = [req |-> "touch"]
        /\ UNCHANGED <<now, streams, channel>>
        /\ Idle

\* get_online_users()
Listed(g) ==
    /\ _connected_users' = g.users
    /\ out' = [req |-> "users", users |-> g.ret, at |-> now,
               removed |-> _connected_users \ g.users]
    /\ UNCHANGED <<now, streams, channel>>
    /\ Idle

GetOnlineUsers == Listed(get_online_users(_connected_users, now))

NextPresence == Tick \/ TouchUser \/ GetOnlineUsers

SpecPresence == Init /\ [][NextPresence]_vars

-----------------------------------------------------------------------------
(* event_stream.  A stream is one call of the generator: its name, whether *)
(* it is open, whether its subscription to the channel exists, where it    *)
(* stands (pc), the length of the channel when it subscribed, its queue,   *)
(* the frames it yielded, and the times last_keepalive was set and its     *)
(* present wait began.  get_message either returns at once with no message *)
(* or waits; asyncio.wait_for ends a wait of 10 seconds.                   *)

MaxStreams == 2

MaxFrames == 4

MaxPublished == 3

TickStep == 5

StreamSeconds == 15

Frame(kind, data) == [kind |-> kind, data |-> data]

\* ": keepalive"
KeepaliveFrame == Frame("keepalive", [type |-> "keepalive"])

\* PUBLISH: the message is on the channel and in every subscription
Channel(ch, data, delivered) ==
    IF delivered THEN Append(ch, data) ELSE ch

Queued(ss, data, delivered) ==
    [i \in 1..Len(ss) |->
        IF delivered /\ ss[i].sub /\ ss[i].open
        THEN [ss[i] EXCEPT !.queue = Append(@, data)]
        ELSE ss[i]]

\* a stream that yields a message after the frames yielded later
Yielded_unordered(frames, message) == <<Frame("event", message)>> \o frames

\* lines 96-100: the message is yielded
Yielded(frames, message) == Append(frames, Frame("event", message))

\* the state a step of a stream leaves
Streamed(users, ss, ch, response) ==
    /\ Len(ch) <= MaxPublished
    /\ \A i \in 1..Len(ss) : Len(ss[i].frames) <= MaxFrames
    /\ _connected_users' = users
    /\ streams' = ss
    /\ channel' = ch
    /\ out' = response
    /\ UNCHANGED now
    /\ Idle

\* {'type': 'users', 'users': get_online_users()} handed to broadcast_sse
UsersPublished(g, ss, response) ==
    Streamed(g.users,
             Queued(ss, [type |-> "users", users |-> g.ret],
                    broadcast_sse(Cur, g.ret, FALSE)),
             Channel(channel, [type |-> "users", users |-> g.ret],
                     broadcast_sse(Cur, g.ret, FALSE)),
             response)

\* a stream that, with a client, does not join the channel
Connect_unsubscribed ==
    \E name \in {"alice", NoName} :
        /\ Len(streams) < MaxStreams
        /\ Streamed(_connected_users,
                    Append(streams,
                           [name |-> name, open |-> TRUE, sub |-> FALSE,
                            pc |-> IF redis_client THEN "subscribed"
                                   ELSE "sleep",
                            from |-> Len(channel), queue |-> <<>>,
                            frames |-> IF redis_client THEN <<>>
                                       ELSE <<Frame("initial",
                                                    [type |-> "full",
                                                     town |-> StoreView(Cur)])>>,
                            last_keepalive |-> now, wait |-> now]),
                    channel, [req |-> "connect", stream |-> Len(streams) + 1])

\* lines 59-73: GET /events; with a client the stream subscribes, without
\* one it yields the town (lines 64-65) and sleeps
Connect ==
    \E name \in {"alice", NoName} :
        /\ Len(streams) < MaxStreams
        /\ Streamed(_connected_users,
                    Append(streams,
                           [name |-> name, open |-> TRUE,
                            sub |-> redis_client,
                            pc |-> IF redis_client THEN "subscribed"
                                   ELSE "sleep",
                            from |-> Len(channel), queue |-> <<>>,
                            frames |-> IF redis_client THEN <<>>
                                       ELSE <<Frame("initial",
                                                    [type |-> "full",
                                                     town |-> StoreView(Cur)])>>,
                            last_keepalive |-> now, wait |-> now]),
                    channel, [req |-> "connect", stream |-> Len(streams) + 1])

\* lines 77-79: the name is registered and the roster published
Register ==
    \E i \in 1..Len(streams) :
        /\ streams[i].open
        /\ streams[i].pc = "subscribed"
        /\ IF streams[i].name = NoName
           THEN Streamed(_connected_users,
                         [streams EXCEPT ![i].pc = "registered"], channel,
                         [req |-> "register", stream |-> i])
           ELSE UsersPublished(
                    get_online_users(Touch(_connected_users, streams[i].name,
                                           now), now),
                    [streams EXCEPT ![i].pc = "registered"],
                    [req |-> "register", stream |-> i])

\* lines 83-84: the town is yielded
YieldFull ==
    \E i \in 1..Len(streams) :
        /\ streams[i].open
        /\ streams[i].pc = "registered"
        /\ Streamed(_connected_users,
                    [streams EXCEPT
                        ![i].pc = "full",
                        ![i].frames =
                            Append(@, Frame("initial",
                                            [type |-> "full",
                                             town |-> StoreView(Cur)]))],
                    channel, [req |-> "full", stream |-> i])

\* lines 87-90: the roster is yielded and the main loop entered
RosterYielded(i, g) ==
    Streamed(g.users,
             [streams EXCEPT
                 ![i].pc = "loop",
                 ![i].frames = Append(@, Frame("initial",
                                               [type |-> "users",
                                                users |-> g.ret])),
                 ![i].last_keepalive = now,
                 ![i].wait = now],
             channel, [req |-> "roster", stream |-> i])

YieldUsers ==
    \E i \in 1..Len(streams) :
        /\ streams[i].open
        /\ streams[i].pc = "full"
        /\ RosterYielded(i, get_online_users(_connected_users, now))

\* lines 102-105: the periodic update of the last-seen timestamp
Periodic(s) == s.name # NoName /\ now - s.last_keepalive > KEEPALIVE

\* lines 94-105: get_message returned a message
Message ==
    \E i \in 1..Len(streams) :
        /\ streams[i].open
        /\ streams[i].pc = "loop"
        /\ streams[i].queue # <<>>
        /\ Streamed(IF Periodic(streams[i])
                    THEN Touch(_connected_users, streams[i].name, now)
                    ELSE _connected_users,
                    [streams EXCEPT
                        ![i].frames = Yielded(@, Head(streams[i].queue)),
                        ![i].queue = Tail(@),
                        ![i].last_keepalive =
                            IF Periodic(streams[i]) THEN now ELSE @,
                        ![i].wait = now],
                    channel, [req |-> "message", stream |-> i])

\* lines 94-105: get_message returned None before the timeout, and the
\* periodic update is due
NoMessage ==
    \E i \in 1..Len(streams) :
        /\ streams[i].open
        /\ streams[i].pc = "loop"
        /\ streams[i].queue = <<>>
        /\ Periodic(streams[i])
        /\ Streamed(Touch(_connected_users, streams[i].name, now),
                    [streams EXCEPT ![i].last_keepalive = now,
                                    ![i].wait = now],
                    channel, [req |-> "none", stream |-> i])

\* lines 107-115: asyncio.TimeoutError
TimedOut(i, ss) ==
    IF streams[i].name = NoName
    THEN Streamed(_connected_users, ss, channel,
                  [req |-> "keepalive", stream |-> i])
    ELSE UsersPublished(
             get_online_users(Touch(_connected_users, streams[i].name, now),
                              now),
             ss, [req |-> "keepalive", stream |-> i])

Timeout ==
    \E i \in 1..Len(streams) :
        /\ streams[i].open
        /\ streams[i].pc = "loop"
        /\ streams[i].queue = <<>>
        /\ now - streams[i].wait >= KEEPALIVE
        /\ TimedOut(i, [streams EXCEPT
                           ![i].frames = Append(@, KeepaliveFrame),
                           ![i].last_keepalive = now,
                           ![i].wait = now])

\* lines 66-68: without a client, sleep(10) and a keep-alive
Sleep ==
    \E i \in 1..Len(streams) :
        /\ streams[i].open
        /\ streams[i].pc = "sleep"
        /\ now - streams[i].wait >= KEEPALIVE
        /\ Streamed(_connected_users,
                    [streams EXCEPT ![i].frames = Append(@, KeepaliveFrame),
                                    ![i].wait = now],
                    channel, [req |-> "keepalive", stream |-> i])

\* a stream that has ended keeps its name and what it leaked
Ended(s, sub) ==
    [s EXCEPT !.open = FALSE, !.sub = sub, !.queue = <<>>, !.frames = <<>>,
              !.pc = "ended", !.last_keepalive = 0, !.wait = 0, !.from = 0]

\* lines 117-127: the task is cancelled inside the try block
Cancel ==
    \E i \in 1..Len(streams) :
        /\ streams[i].open
        /\ streams[i].pc \in {"registered", "full", "loop"}
        /\ IF streams[i].name \in Keys(_connected_users)
           THEN UsersPublished(
                    get_online_users(Delete(_connected_users,
                                            streams[i].name), now),
                    [streams EXCEPT ![i] = Ended(@, FALSE)],
                    [req |-> "cancel", stream |-> i])
           ELSE Streamed(_connected_users,
                         [streams EXCEPT ![i] = Ended(@, FALSE)], channel,
                         [req |-> "cancel", stream |-> i])

\* lines 124-127: the generator is closed at a yield, or a call raises an
\* exception other than CancelledError, inside the try block; without a
\* client (lines 64-68) the stream just ends
Close ==
    \E i \in 1..Len(streams) :
        /\ streams[i].open
        /\ streams[i].pc \in {"registered", "full", "loop", "sleep"}
        /\ Streamed(_connected_users,
                    [streams EXCEPT ![i] = Ended(@, FALSE)], channel,
                    [req |-> "close", stream |-> i])

\* lines 73-79: the task is cancelled while broadcast_sse waits, before the
\* try block is entered
CancelRegistering ==
    \E i \in 1..Len(streams) :
        /\ streams[i].open
        /\ streams[i].pc = "subscribed"
        /\ streams[i].name # NoName
        /\ Streamed(Touch(_connected_users, streams[i].name, now),
                    [streams EXCEPT ![i] = Ended(@, TRUE)], channel,
                    [req |-> "cancel", stream |-> i])

\* a batch of one create commits and publishes its full event
BatchStreamed(T, r) ==
    /\ Bounded(T, StepEntries)
    /\ Len(channel) < MaxPublished \/ ~r.delivered
    /\ r_town_data' = T.rTown
    /\ r_town_history' = T.rHist
    /\ r_town_redo' = T.rRedo
    /\ heap' = T.heap
    /\ _town_data_storage' = T.mTown
    /\ _history_stack' = T.mHist
    /\ _redo_stack' = T.mRedo
    /\ uuid_count' = T.uuids
    /\ streams' = Queued(streams, r.event[1], r.delivered)
    /\ channel' = Channel(channel, r.event[1], r.delivered)
    /\ out' = [req |-> "batch", stream |-> 0]
    /\ UNCHANGED <<redis_client, flaky, faults, watch, snapshot_client,
                   r_snapshots, snapshot_count, reqs, _connected_users, now>>

StreamBatched(r) == BatchStreamed(Collect(r.S), r)

StreamBatch ==
    \E operations \in {b \in StepBatches : b[1].category = "buildings"} :
        StreamBatched(execute_operations(Cur, operations, TRUE, NoFault))

StreamTick == TickOf(TickStep, StreamSeconds)

NextStream ==
    \/ Connect
    \/ Register
    \/ YieldFull
    \/ YieldUsers
    \/ Message
    \/ NoMessage
    \/ Timeout
    \/ Sleep
    \/ Cancel
    \/ Close
    \/ CancelRegistering
    \/ StreamBatch
    \/ StreamTick

SpecStream == Init /\ [][NextStream]_vars

\* the published messages a stream yielded, in the order it yielded them
Events(frames) ==
    LET e == SelectSeq(frames, LAMBDA f : f.kind = "event")
    IN [k \in 1..Len(e) |-> e[k].data]


-----------------------------------------------------------------------------
(* The roster over a longer time: streams connect, register, yield their   *)
(* initial frames, time out, and end, while the clock passes the presence  *)
(* timeout in one step.                                                    *)

RosterStep == 31

RosterSeconds == 31

RosterTick == TickOf(RosterStep, RosterSeconds)

NextRoster ==
    \/ Connect
    \/ Register
    \/ YieldFull
    \/ YieldUsers
    \/ Message
    \/ Timeout
    \/ Cancel
    \/ Close
    \/ RosterTick

\* a client exists
InitRoster ==
    /\ redis_client = TRUE
    /\ flaky = FALSE
    /\ snapshot_client = FALSE
    /\ Started

SpecRoster == InitRoster /\ [][NextRoster]_vars


-----------------------------------------------------------------------------
(* Batches over a wider choice of operations: creates with and without a   *)
(* position and with a malformed one, a create and an update that supply   *)
(* an id already present, and deletes by position.  A position is its x    *)
(* coordinate; y and z are 0.  The response also records the request and   *)
(* the document get_town_data returned before it.                          *)

\* the entries created in a behaviour of single batches
ObjectEntries == 1

\* the points a delete by position names
Points == {0, 1, 4}

ObjectOperations ==
    {Op("create", "buildings", None,
        [NoData EXCEPT !.id = "a", !.position = 0], AbsentPos),
     Op("create", "buildings", None,
        [NoData EXCEPT !.id = "b", !.position = 2], AbsentPos),
     Op("create", "buildings", None, [NoData EXCEPT !.id = "a"], AbsentPos),
     Op("create", "buildings", None,
        [NoData EXCEPT !.id = "b", !.position = BadPos], AbsentPos),
     Op("update", "buildings", "a", [NoData EXCEPT !.id = "b"], AbsentPos)}
    \cup {Op("delete", "buildings", None, NoData, p) : p \in Points}

ObjectBatches ==
    UNION {[1..n -> ObjectOperations] : n \in 0..MaxOps}

\* BatchOperationResponse, with the request and the store before it
ObjectResponse(r, operations, validate) ==
    Install(r.S,
            [req |-> "batch",
             status |-> IF r.failed = 0 THEN "success" ELSE "partial",
             results |-> r.results, successful |-> r.successful,
             failed |-> r.failed, operations |-> operations,
             validate |-> validate, before |-> StoreView(Cur),
             event |-> r.event],
            ObjectEntries)

\* one batch is applied to the store drawn
ObjectBatch ==
    \E operations \in ObjectBatches, validate \in BOOLEAN :
        /\ out.req = "start"
        /\ Fault(NoFault)
        /\ ObjectResponse(execute_operations(Cur, operations, validate,
                                             NoFault),
                          operations, validate)

\* the objects a create of ObjectOperations appends
ObjectsDrawn == {o.data : o \in {p \in ObjectOperations : p.op = "create"}}

ObjectLists == UNION {[1..n -> ObjectsDrawn] : n \in 0..MaxObjects}

\* the store holds a list of objects and the history is empty, as after
\* DELETE /api/history: with a client the backing holds the document, and
\* without one the in-memory dict does
InitObjects ==
    /\ redis_client \in BOOLEAN
    /\ flaky = FALSE
    /\ snapshot_client = FALSE
    /\ \E list \in ObjectLists :
           /\ r_town_data = IF redis_client THEN <<[buildings |-> list]>>
                            ELSE <<>>
           /\ heap = <<list>>
    /\ _town_data_storage = [c \in DefaultCategories |-> 1]
    /\ r_town_history = <<>>
    /\ r_town_redo = <<>>
    /\ _history_stack = <<>>
    /\ _redo_stack = <<>>
    /\ uuid_count = 0
    /\ faults = 0
    /\ out = [req |-> "start"]
    /\ watch = <<>>
    /\ r_snapshots = [list |-> <<>>, data |-> {}]
    /\ snapshot_count = 0
    /\ reqs = <<>>
    /\ _connected_users = {}
    /\ now = 0
    /\ streams = <<>>
    /\ channel = <<>>

SpecObjects == InitObjects /\ [][ObjectBatch]_vars

\* the objects of a category in a document
Objects(town, category) ==
    IF category \in DOMAIN town THEN town[category] ELSE <<>>


-----------------------------------------------------------------------------
(* app/services/query.py.  Coordinates are tenths of a unit on the x axis, *)
(* so that an object at 4.9 is at 49; with y = z = 0 the Euclidean         *)
(* distance is the absolute difference.  A query value is a string;        *)
(* Python orders strings by code point, which StrOrder lists for the       *)
(* strings drawn, and Fragments lists the proper substrings drawn.         *)

\* a key the object does not have
Absent == "absent"

\* limit=None, max_distance=None
NoLimit == -1

StrOrder ==
    <<"a", "b", "buildings", "c", "d", "fire", "police", "vehicles">>

StrRank(s) == CHOOSE i \in 1..Len(StrOrder) : StrOrder[i] = s

Fragments == {<<"i", "fire">>, <<"i", "police">>, <<"i", "buildings">>,
              <<"i", "vehicles">>}

\* needle in hay, for strings
StrIn(needle, hay) == needle = hay \/ <<needle, hay>> \in Fragments

Abs(n) == IF n < 0 THEN 0 - n ELSE n

Least(a, b) == IF a < b THEN a ELSE b

\* s[:n] and s[n:] for n >= 0
Take(s, n) == SubSeq(s, 1, Least(n, Len(s)))

Drop(s, n) == SubSeq(s, Least(n, Len(s)) + 1, Len(s))

\* lines 368-380: the keys that hold lists, in the dictionary's order
_get_all_categories(town) ==
    SelectSeq(CategoryOrder, LAMBDA c : c \in DOMAIN town)

\* lines 36-44, 88-96, 134-142, 187-195: the objects the loops visit, each
\* with the category it was found in
Scan(town, category) ==
    LET categories == IF category # None THEN <<category>>
                      ELSE _get_all_categories(town)
        F[i \in 0..Len(categories)] ==
            IF i = 0 THEN <<>>
            ELSE IF categories[i] \in DOMAIN town
                 THEN F[i - 1] \o [k \in 1..Len(town[categories[i]]) |->
                                      [obj |-> town[categories[i]][k],
                                       cat |-> categories[i]]]
                 ELSE F[i - 1]
    IN F[Len(categories)]

\* _calculate_distance: a missing coordinate reads as 0
_calculate_distance(point1, pos) ==
    Abs((IF pos = AbsentPos THEN 0 ELSE pos) - point1)

\* _is_within_bounds: the closed box
_is_within_bounds(pos, min_point, max_point) ==
    /\ min_point <= (IF pos = AbsentPos THEN 0 ELSE pos)
    /\ (IF pos = AbsentPos THEN 0 ELSE pos) <= max_point

\* {**obj, "category": cat, "distance": distance}: a new dictionary
WithDistance(v, point) ==
    [category |-> v.cat,
     distance |-> _calculate_distance(point, v.obj.position)] @@ v.obj

\* {**obj, "category": cat}
WithCategory(v) == [category |-> v.cat] @@ v.obj

\* list.sort(key=distance): stable, ascending
SortByDistance(results) ==
    LET n == Len(results)
        rank(i) == Cardinality({j \in 1..n :
                        \/ results[j].distance < results[i].distance
                        \/ /\ results[j].distance = results[i].distance
                           /\ j <= i})
    IN [k \in 1..n |-> results[CHOOSE i \in 1..n : rank(i) = k]]

\* _get_nested_value for a one-part path: None for a missing key and for null
_get_nested_value(obj, field) ==
    IF field \in DOMAIN obj /\ obj[field] # Absent THEN obj[field] ELSE None

\* an _evaluate_condition without the test of lines 341-342
_evaluate_condition_null(obj_value, operator, filter_value) ==
    CASE operator = "eq" -> obj_value = filter_value
      [] operator = "ne" -> obj_value # filter_value
      [] operator = "contains" -> StrIn(filter_value, obj_value)
      [] operator = "in" -> obj_value \in filter_value
      [] OTHER -> FALSE

\* _evaluate_condition: the value of "in" is a list of strings, the value of
\* every other operator a string
_evaluate_condition(obj_value, operator, filter_value) ==
    IF obj_value = None THEN FALSE
    ELSE CASE operator = "eq" -> obj_value = filter_value
           [] operator = "ne" -> obj_value # filter_value
           [] operator = "gt" -> StrRank(obj_value) > StrRank(filter_value)
           [] operator = "lt" -> StrRank(obj_value) < StrRank(filter_value)
           [] operator = "gte" -> StrRank(obj_value) >= StrRank(filter_value)
           [] operator = "lte" -> StrRank(obj_value) <= StrRank(filter_value)
           [] operator = "contains" -> StrIn(filter_value, obj_value)
           [] operator = "in" -> obj_value \in filter_value
           [] OTHER -> FALSE

\* _matches_filters: the first condition that fails ends the loop
_matches_filters(obj, filters) ==
    \A i \in 1..Len(filters) :
        _evaluate_condition(_get_nested_value(obj, filters[i].field),
                            filters[i].operator, filters[i].value)

\* list.sort(key=field, reverse=reverse): stable in both directions
SortByField(results, sort_by, reverse) ==
    LET n == Len(results)
        key(i) == StrRank(_get_nested_value(results[i], sort_by))
        rank(i) == Cardinality({j \in 1..n :
                        \/ (IF reverse THEN key(j) > key(i)
                            ELSE key(j) < key(i))
                        \/ key(j) = key(i) /\ j <= i})
    IN [k \in 1..n |-> results[CHOOSE i \in 1..n : rank(i) = k]]

\* "if limit:" is false for None and for 0
Limited(results, limit) ==
    IF limit # NoLimit /\ limit # 0 THEN Take(results, limit) ELSE results

\* the document the query reads, and the stores get_town_data left
Read(S) ==
    [S |-> get_town_data(S, FALSE).S,
     refs |-> get_town_data(S, FALSE).ret,
     town |-> Dump(get_town_data(S, FALSE).ret, get_town_data(S, FALSE).S.heap)]

spatial_query_radius(town, center, radius, category, limit) ==
    Limited(SortByDistance(
                SelectSeq([k \in 1..Len(Scan(town, category)) |->
                              WithDistance(Scan(town, category)[k], center)],
                          LAMBDA r : r.distance <= radius)),
            limit)

spatial_query_bounds(town, min_point, max_point, category, limit) ==
    Limited([k \in 1..Len(SelectSeq(Scan(town, category),
                 LAMBDA v : _is_within_bounds(v.obj.position, min_point,
                                              max_point))) |->
                WithCategory(SelectSeq(Scan(town, category),
                    LAMBDA v : _is_within_bounds(v.obj.position, min_point,
                                                 max_point))[k])],
            limit)

spatial_query_nearest(town, point, category, count, max_distance) ==
    Take(SortByDistance(
             SelectSeq([k \in 1..Len(Scan(town, category)) |->
                           WithDistance(Scan(town, category)[k], point)],
                       LAMBDA r : max_distance = NoLimit
                                  \/ r.distance <= max_distance)),
         count)

\* lines 189-205
Matching(town, category, filters) ==
    SelectSeq([k \in 1..Len(Scan(town, category)) |->
                  WithCategory(Scan(town, category)[k])],
              LAMBDA r : _matches_filters(r, filters))

advanced_query(town, category, filters, sort_by, sort_order, limit, offset) ==
    Limited(Drop(IF sort_by # None
                 THEN SortByField(Matching(town, category, filters), sort_by,
                                  sort_order = "desc")
                 ELSE Matching(town, category, filters),
                 offset),
            limit)


-----------------------------------------------------------------------------
(* app/routes/query.py: one created object, then the queries, over a store *)
(* drawn from the objects below.                                           *)

QueryObjects ==
    {[id |-> "a", position |-> 49, driver |-> "police"],
     [id |-> "b", position |-> 51, driver |-> None],
     [id |-> "c", position |-> 50, driver |-> "fire"],
     [id |-> "d", position |-> AbsentPos, driver |-> Absent]}

QueryLists == UNION {[1..n -> QueryObjects] : n \in 0..MaxObjects}

\* a vehicles category, when there is one
QueryVehicles ==
    {<<[id |-> "c", position |-> 50, driver |-> "fire"]>>,
     <<[id |-> "a", position |-> 0, driver |-> Absent]>>}

QueryCategories == {None, "buildings", "vehicles"}

Centers == {0, 1}
Radii == {0, 49, 50}
Limits == {NoLimit, 0, 1, 2}
Counts == {0, 1, 2}
Corners == {0, 50}

Operators == {"eq", "ne", "gt", "lt", "gte", "lte", "contains", "in"}

\* one condition on driver or on owner (a key no object has) per operator
Conditions ==
    {[field |-> f, operator |-> o,
      value |-> IF o = "in" THEN {"police", "a"}
                ELSE IF o = "contains" THEN "i" ELSE "police"] :
        f \in {"driver", "owner"}, o \in Operators}

Filters ==
    {<<>>} \cup {<<c>> : c \in Conditions}
    \cup {<<c, [field |-> "id", operator |-> "ne", value |-> "a"]>> :
             c \in Conditions}

Sorts == {[sort_by |-> None, sort_order |-> "asc"],
          [sort_by |-> "id", sort_order |-> "asc"],
          [sort_by |-> "id", sort_order |-> "desc"]}

Pages == {[limit |-> NoLimit, offset |-> 0], [limit |-> 1, offset |-> 0],
          [limit |-> 0, offset |-> 1], [limit |-> 1, offset |-> 1]}

QueryRequests == {"radius", "bounds", "nearest", "advanced"}

\* a query whose loops write the category into the objects they visit
Queried_in_place(r, req, query, results) ==
    Install([r.S EXCEPT !.heap =
                 [i \in DOMAIN r.S.heap |->
                     IF \E c \in DOMAIN r.refs : r.refs[c] = i
                     THEN [k \in DOMAIN r.S.heap[i] |->
                              [category |->
                                   CHOOSE c \in DOMAIN r.refs : r.refs[c] = i]
                              @@ r.S.heap[i][k]]
                     ELSE r.S.heap[i]]],
            [req |-> req, status |-> "success", query |-> query,
             results |-> results, count |-> Len(results), event |-> <<>>],
            ObjectEntries)

\* a query reads: the stores are as get_town_data left them
Queried(r, req, query, results) ==
    Install(r.S, [req |-> req, status |-> "success", query |-> query,
                  results |-> results, count |-> Len(results),
                  event |-> <<>>], ObjectEntries)

QueryCreate ==
    \E obj \in QueryObjects :
        /\ out.req = "start"
        /\ Fault(NoFault)
        /\ ObjectResponse(
               execute_operations(
                   Cur, <<Op("create", "buildings", None, obj, AbsentPos)>>,
                   FALSE, NoFault),
               <<Op("create", "buildings", None, obj, AbsentPos)>>, FALSE)

\* POST /api/query/spatial/radius
QueryRadius ==
    \E center \in Centers, radius \in Radii, category \in QueryCategories,
       limit \in Limits :
        /\ out.req \notin QueryRequests
        /\ Fault(NoFault)
        /\ Queried(Read(Cur), "radius",
                   [center |-> center, radius |-> radius,
                    category |-> category, limit |-> limit],
                   spatial_query_radius(Read(Cur).town, center, radius,
                                        category, limit))

\* POST /api/query/spatial/bounds
QueryBounds ==
    \E min_point \in Corners, max_point \in Corners,
       category \in QueryCategories, limit \in Limits :
        /\ out.req \notin QueryRequests
        /\ Fault(NoFault)
        /\ Queried(Read(Cur), "bounds",
                   [min |-> min_point, max |-> max_point,
                    category |-> category, limit |-> limit],
                   spatial_query_bounds(Read(Cur).town, min_point, max_point,
                                        category, limit))

\* POST /api/query/spatial/nearest
QueryNearest ==
    \E point \in Centers, category \in QueryCategories, count \in Counts,
       max_distance \in {NoLimit, 49} :
        /\ out.req \notin QueryRequests
        /\ Fault(NoFault)
        /\ Queried(Read(Cur), "nearest",
                   [point |-> point, category |-> category, count |-> count,
                    max_distance |-> max_distance],
                   spatial_query_nearest(Read(Cur).town, point, category,
                                         count, max_distance))

\* POST /api/query/advanced
QueryAdvanced ==
    \E category \in {None, "buildings"}, filters \in Filters, sort \in Sorts,
       page \in Pages :
        /\ out.req \notin QueryRequests
        /\ Fault(NoFault)
        /\ Queried(Read(Cur), "advanced",
                   [category |-> category, filters |-> filters,
                    sort_by |-> sort.sort_by, sort_order |-> sort.sort_order,
                    limit |-> page.limit, offset |-> page.offset],
                   advanced_query(Read(Cur).town, category, filters,
                                  sort.sort_by, sort.sort_order, page.limit,
                                  page.offset))

\* the store holds a drawn buildings list and, in the backing's document
\* and in memory alike, a vehicles list or none
InitQuery ==
    /\ redis_client \in BOOLEAN
    /\ flaky = FALSE
    /\ snapshot_client = FALSE
    /\ \E list \in QueryLists, vehicles \in {<<>>} \cup {<<v>> : v \in QueryVehicles} :
           /\ heap = <<list>> \o vehicles
           /\ _town_data_storage =
                  IF vehicles = <<>> THEN [buildings |-> 1]
                  ELSE [buildings |-> 1, vehicles |-> 2]
           /\ r_town_data =
                  IF ~redis_client THEN <<>>
                  ELSE IF vehicles = <<>> THEN <<[buildings |-> list]>>
                  ELSE <<[buildings |-> list, vehicles |-> vehicles[1]]>>
    /\ r_town_history = <<>>
    /\ r_town_redo = <<>>
    /\ _history_stack = <<>>
    /\ _redo_stack = <<>>
    /\ uuid_count = 0
    /\ faults = 0
    /\ out = [req |-> "start"]
    /\ watch = <<>>
    /\ r_snapshots = [list |-> <<>>, data |-> {}]
    /\ snapshot_count = 0
    /\ reqs = <<>>
    /\ _connected_users = {}
    /\ now = 0
    /\ streams = <<>>
    /\ channel = <<>>

NextQuery ==
    QueryCreate \/ QueryRadius \/ QueryBounds \/ QueryNearest
    \/ QueryAdvanced

SpecQuery == InitQuery /\ [][NextQuery]_vars


-----------------------------------------------------------------------------
(* Snapshots among mutations: batches, undos and redos that meet no        *)
(* failing call, and the snapshot routes with the id they were given.      *)

SnapshotIds == 1..MaxSnapshots

\* the response of a snapshot route, with the snapshot id it was about and
\* the store and the snapshots it met
SnapshotResponse(req, snapshot_id, r) ==
    Install(r.S, [req |-> req, status |-> r.status, detail |-> r.detail,
                  event |-> r.event, delivered |-> r.delivered,
                  snapshot_id |-> snapshot_id, before |-> StoreView(Cur),
                  snapshots |-> r_snapshots], MaxEntries)

\* lines 190-198: d is what delete_snapshot returned
Deleted(d) ==
    IF ~d.ret THEN Response(d.S, "404", "Snapshot not found", <<>>, FALSE)
    ELSE Response(d.S, "success", "Snapshot deleted", <<>>, FALSE)

\* POST /api/snapshots
TakeSnapshot ==
    /\ snapshot_count < MaxSnapshots
    /\ Fault(NoFault)
    /\ SnapshotResponse("snapshot", snapshot_count + 1,
                        create_snapshot_route(get_town_data(Cur, FALSE)))

\* POST /api/snapshots/{snapshot_id}/restore
RestoreSnapshot ==
    \E snapshot_id \in SnapshotIds :
        /\ Fault(NoFault)
        /\ SnapshotResponse("restore", snapshot_id,
                            restore_snapshot(Cur, snapshot_id, NoFault))

\* DELETE /api/snapshots/{snapshot_id}
DeleteSnapshot ==
    \E snapshot_id \in SnapshotIds :
        /\ Fault(NoFault)
        /\ SnapshotResponse("delete", snapshot_id,
                            Deleted(delete_snapshot(Cur, snapshot_id)))

InitSnapshots ==
    /\ redis_client \in BOOLEAN
    /\ flaky = FALSE
    /\ snapshot_client \in {FALSE, redis_client}
    /\ Started

NextSnapshots ==
    \/ PublishingBatch
    \/ PublishingUndo
    \/ PublishingRedo
    \/ TakeSnapshot
    \/ RestoreSnapshot
    \/ DeleteSnapshot

SpecSnapshots == InitSnapshots /\ [][NextSnapshots]_vars


-----------------------------------------------------------------------------
(* app/routes/buildings.py and app/routes/town.py: the single-object       *)
(* routes.  Each reads the store, changes the lists it was given in place, *)
(* writes the store and hands one event to broadcast_sse.                  *)

\* the response of a single-object route, with the store it met
RouteResponse(req, r) ==
    Install(r.S, [req |-> req, status |-> r.status, detail |-> r.detail,
                  event |-> r.event, delivered |-> r.delivered,
                  before |-> StoreView(Cur)], StepEntries)

\* buildings.py lines 39-68: g is what get_town_data returned; the id is
\* generated, the category created when missing, the building appended
create_building(g, category, position) ==
    Broadcast(
        set_town_data(
            [g.S EXCEPT
                !.uuids = @ + 1,
                !.heap = IF category \in DOMAIN g.ret
                         THEN [@ EXCEPT ![g.ret[category]] =
                                  Append(@, [NoData EXCEPT
                                                !.id = ToString(g.S.uuids + 1),
                                                !.position = position])]
                         ELSE Append(@, <<[NoData EXCEPT
                                              !.id = ToString(g.S.uuids + 1),
                                              !.position = position]>>)],
            IF category \in DOMAIN g.ret THEN g.ret
            ELSE [c \in DOMAIN g.ret \cup {category} |->
                     IF c = category THEN Len(g.S.heap) + 1 ELSE g.ret[c]],
            FALSE),
        "Created",
        [type |-> "full",
         town |-> IF category \in DOMAIN g.ret
                  THEN [Dump(g.ret, g.S.heap) EXCEPT ![category] =
                           Append(@, [NoData EXCEPT
                                         !.id = ToString(g.S.uuids + 1),
                                         !.position = position])]
                  ELSE [c \in DOMAIN g.ret \cup {category} |->
                           IF c = category
                           THEN <<[NoData EXCEPT
                                      !.id = ToString(g.S.uuids + 1),
                                      !.position = position]>>
                           ELSE g.S.heap[g.ret[c]]]],
        NoFault)

\* town.py lines 429-454: the first model of the category with the id gets
\* the position supplied; no such model is a 404
edit_model(g, category, model_id, position) ==
    IF category \in DOMAIN g.ret
       /\ IndexOfId(g.S.heap[g.ret[category]], model_id) # 0
    THEN Broadcast(
             set_town_data(
                 [g.S EXCEPT
                     !.heap[g.ret[category]]
                          [IndexOfId(g.S.heap[g.ret[category]], model_id)]
                          .position = IF position # AbsentPos THEN position
                                      ELSE @],
                 g.ret, FALSE),
             "Updated",
             [type |-> "edit", category |-> category, id |-> model_id],
             NoFault)
    ELSE Response(g.S, "404", "Model not found", <<>>, FALSE)

\* buildings.py lines 258-261: the first category of the search, in its
\* order, that holds a building with the id
Holder(g, building_id) ==
    CategoryOrder[CHOOSE i \in 1..Len(CategoryOrder) :
        /\ CategoryOrder[i] \in DOMAIN g.ret
        /\ IndexOfId(g.S.heap[g.ret[CategoryOrder[i]]], building_id) # 0
        /\ \A j \in 1..(i - 1) :
               CategoryOrder[j] \in DOMAIN g.ret
               => IndexOfId(g.S.heap[g.ret[CategoryOrder[j]]],
                            building_id) = 0]

\* buildings.py lines 255-283: the first building with the id, in the first
\* category that has one, is popped; none is a 404
delete_building(g, building_id) ==
    IF \E c \in DOMAIN g.ret : IndexOfId(g.S.heap[g.ret[c]], building_id) # 0
    THEN Broadcast(
             set_town_data(
                 [g.S EXCEPT
                     !.heap[g.ret[Holder(g, building_id)]]
                     = PopAt(@, IndexOfId(@, building_id))],
                 g.ret, FALSE),
             "Deleted", [type |-> "delete", id |-> building_id], NoFault)
    ELSE Response(g.S, "404", "Building not found", <<>>, FALSE)

\* POST /api/buildings
CreateBuilding ==
    \E category \in Categories, position \in Coords :
        /\ Fault(NoFault)
        /\ RouteResponse("create_building",
                         create_building(get_town_data(Cur, FALSE), category,
                                         position))

\* PUT /api/town/model
EditModel ==
    \E category \in Categories, model_id \in Ids \cup {"1"},
       position \in Coords \cup {AbsentPos} :
        /\ Fault(NoFault)
        /\ RouteResponse("edit_model",
                         edit_model(get_town_data(Cur, FALSE), category,
                                    model_id, position))

\* DELETE /api/buildings/{building_id}
DeleteBuilding ==
    \E building_id \in Ids \cup {"1"} :
        /\ Fault(NoFault)
        /\ RouteResponse("delete_building",
                         delete_building(get_town_data(Cur, FALSE),
                                         building_id))

RoutesBatch == BatchOf(SmallBatches, {TRUE}, StepEntries)

RoutesUndo == UndoOf(StepEntries)

NextRoutes ==
    CreateBuilding \/ EditModel \/ DeleteBuilding \/ RoutesBatch \/ RoutesUndo

SpecRoutes == Init /\ [][NextRoutes]_vars


-----------------------------------------------------------------------------
(* Batches of creates, updates, edits and deletes by id, as the route      *)
(* hands them to execute_operations.                                       *)

\* routes/batch.py line 64, op.model_dump(): BatchOperation has the fields
\* op, category, id, data and position, so a rotation or a scale sent with
\* an operation is not in the dictionary
model_dump(op) == [op EXCEPT !.rotation = AbsentPos, !.scale = AbsentPos]

EditOperations ==
    {Op("create", "buildings", None,
        [NoData EXCEPT !.id = "a", !.position = 0], AbsentPos),
     Op("update", "buildings", "a", [NoData EXCEPT !.position = 3], AbsentPos),
     Op("update", "buildings", "b", [NoData EXCEPT !.scale = 3], AbsentPos),
     Op("update", "vehicles", "b", [NoData EXCEPT !.position = 0], AbsentPos),
     Op("edit", "buildings", "a", NoData, 3),
     Op("edit", "buildings", "a", NoData, AbsentPos),
     [Op("edit", "buildings", "a", NoData, AbsentPos) EXCEPT !.rotation = 3],
     [Op("edit", "buildings", "b", NoData, 0) EXCEPT !.scale = 3],
     Op("edit", "vehicles", "b", NoData, 3),
     Op("delete", "buildings", "a", NoData, AbsentPos)}

EditBatches == UNION {[1..n -> EditOperations] : n \in 0..MaxOps}

EditObjects ==
    {[NoData EXCEPT !.id = "a", !.position = 0],
     [NoData EXCEPT !.id = "b", !.position = 3],
     [NoData EXCEPT !.id = "a", !.position = 3, !.rotation = 0]}

EditLists == UNION {[1..n -> EditObjects] : n \in 0..MaxObjects}

\* POST /api/batch/operations
EditBatch ==
    \E operations \in EditBatches :
        /\ out.req = "start"
        /\ Fault(NoFault)
        /\ ObjectResponse(
               execute_operations(
                   Cur, [i \in 1..Len(operations) |-> model_dump(operations[i])],
                   TRUE, NoFault),
               operations, TRUE)

\* the store holds a drawn buildings list and, or not, a vehicles list of
\* one object
InitEdits ==
    /\ redis_client \in BOOLEAN
    /\ flaky = FALSE
    /\ snapshot_client = FALSE
    /\ \E list \in EditLists,
          vehicles \in {<<>>, <<<<[NoData EXCEPT !.id = "b", !.position = 3]>>>>} :
           /\ heap = <<list>> \o vehicles
           /\ _town_data_storage =
                  IF vehicles = <<>> THEN [buildings |-> 1]
                  ELSE [buildings |-> 1, vehicles |-> 2]
           /\ r_town_data =
                  IF ~redis_client THEN <<>>
                  ELSE IF vehicles = <<>> THEN <<[buildings |-> list]>>
                  ELSE <<[buildings |-> list, vehicles |-> vehicles[1]]>>
    /\ r_town_history = <<>>
    /\ r_town_redo = <<>>
    /\ _history_stack = <<>>
    /\ _redo_stack = <<>>
    /\ uuid_count = 0
    /\ faults = 0
    /\ out = [req |-> "start"]
    /\ watch = <<>>
    /\ r_snapshots = [list |-> <<>>, data |-> {}]
    /\ snapshot_count = 0
    /\ reqs = <<>>
    /\ _connected_users = {}
    /\ now = 0
    /\ streams = <<>>
    /\ channel = <<>>

SpecEdits == InitEdits /\ [][EditBatch]_vars

-----------------------------------------------------------------------------
(* Batch commits, undos and redos executed one at a time: the batches that  *)
(* are answered with a failed operation, clear_history and the reads of the *)
(* history are left out.                                                    *)

\* POST /api/batch/operations answered with failed = 0
CommittedBatch == Batch /\ out'.status = "success"

NextHistory == CommittedBatch \/ Undo \/ Redo

SpecHistory == Init /\ [][NextHistory]_vars

-----------------------------------------------------------------------------
(* The callers of HistoryManager's history stack: an entry is added with    *)
(* add_entry or the last one taken with pop_last_entry.  The backing, when  *)
(* there is one, may fail single calls; in add_entry the failing call is    *)
(* the RPUSH (1), the LLEN (2) or the DEL of the redo list (4).             *)

BackingEntries == 4

\* the response of a caller of the history stack: id is the entry added or
\* returned, 0 for None
StackOut(req, id) == [req |-> req, status |-> "", id |-> id]

AddEntry ==
    \E a \in {0, 1, 2, 4} :
        /\ Fault([NoFault EXCEPT !.add = a])
        /\ Install(add_entry(Cur, "batch", _town_data_storage,
                             _town_data_storage, a),
                   StackOut("add", uuid_count + 1), BackingEntries)

\* p is what pop_last_entry returned
PopDone(p) ==
    Install(p.S, StackOut("pop", IF p.ret = <<>> THEN 0 ELSE p.ret[1].id),
            BackingEntries)

PopLastEntry ==
    \E fail \in BOOLEAN :
        /\ Fault([NoFault EXCEPT !.pop = fail])
        /\ PopDone(pop_last_entry(Cur, fail))

NextBacking == AddEntry \/ PopLastEntry

SpecBacking == InitStore /\ [][NextBacking]_vars

-----------------------------------------------------------------------------
(* Properties.  A step is named by the response it leaves in out'.         *)

Committed_ == out'.req = "batch" /\ out'.status = "success"
Rejected_ == out'.req = "batch" /\ out'.status = "partial"

\* C1 (batch atomicity): a batch in which at least one operation failed
\* leaves the document get_town_data returns equal to the one it returned
\* before the batch, with and without a backing.
C1_RejectedBatchKeepsStore ==
    [][Rejected_ => StoreView(Cur)' = StoreView(Cur)]_vars

\* C2 (entry and event iff success): a batch appends one entry to the
\* history stack and hands a full event to broadcast_sse exactly when every
\* operation succeeded; a rejected batch leaves the entries of the history
\* stack and of the redo stack as they were and publishes nothing.
C2_EntryAndEventIffSuccess ==
    [][out'.req = "batch" =>
         IF out'.status = "success"
         THEN /\ Len(HistoryDocs(Cur)') = Len(HistoryDocs(Cur)) + 1
              /\ uuid_count' = uuid_count + 1
              /\ out'.event # <<>>
              /\ out'.event[1].type = "full"
         ELSE /\ HistoryDocs(Cur)' = HistoryDocs(Cur)
              /\ RedoDocs(Cur)' = RedoDocs(Cur)
              /\ uuid_count' = uuid_count
              /\ out'.event = <<>>
              /\ ~out'.delivered]_vars

\* C3 (one entry per committed batch): a fully successful batch appends
\* exactly one history entry; its before_state is the document the store
\* returned when the batch started, its after_state the one it commits.
C3_OneEntryBeforeAndAfter ==
    [][Committed_ =>
         LET H == HistoryDocs(Cur)'
         IN /\ Len(H) = Len(HistoryDocs(Cur)) + 1
            /\ H[Len(H)].before_state = StoreView(Cur)
            /\ H[Len(H)].after_state = StoreView(Cur)']_vars

\* C4 (undo/redo round trip): for a committed batch with pre-state P and
\* post-state Q, P # Q, an undo right after it leaves the store equal to P
\* and a redo right after that undo leaves it equal to Q.
C4_UndoRedoRoundTrip ==
    (watch # <<>> /\ watch[1].P # watch[1].Q) =>
        /\ watch[1].stage = "undone" => StoreView(Cur) = watch[1].P
        /\ watch[1].stage = "redone" => StoreView(Cur) = watch[1].Q

\* C5 (can_undo and can_redo are exact): can_undo() is true exactly when
\* pop_last_entry would return an entry, and can_redo() exactly when
\* pop_redo_entry would.
C5_CanUndoCanRedoExact ==
    /\ can_undo(Cur, FALSE) <=> pop_last_entry(Cur, FALSE).ret # <<>>
    /\ can_redo(Cur, FALSE) <=> pop_redo_entry(Cur, FALSE).ret # <<>>

\* two commits and an undo: both stacks hold an entry
C5_BothStacksHold ==
    /\ out.req = "undo" /\ out.status = "success"
    /\ can_undo(Cur, FALSE) /\ can_redo(Cur, FALSE)
    /\ pop_last_entry(Cur, FALSE).ret # <<>>

\* C6 (linear history): a batch committed while the redo stack holds
\* entries leaves the redo stack empty, so that a redo issued next is
\* answered with nothing-to-redo and changes no store.
C6_CommitClearsRedo ==
    [][Committed_ =>
         /\ RedoDocs(Cur)' = <<>>
         /\ ~can_redo(Cur, FALSE)'
         /\ redo_operation(Cur, NoFault)'.status = "400"
         /\ redo_operation(Cur, NoFault)'.S = Cur']_vars

\* a batch was committed when the redo stack held an entry
C6_CommittedOverRedo ==
    /\ out.req = "batch" /\ out.status = "success"
    /\ out.pre.redo > 0
    /\ RedoDocs(Cur) = <<>>

\* C7 (redo): a redo removes exactly the most recently undone entry from
\* the redo stack, sets the store to its after_state and appends to the
\* history stack a new entry with the same before_state and after_state;
\* an undo issued right after it returns the store to that before_state.
C7_RedoMovesOneEntry ==
    [][out'.req = "redo" /\ out'.status = "success" =>
         LET R == RedoDocs(Cur)
             e == R[Len(R)]
             H == HistoryDocs(Cur)'
         IN /\ RedoDocs(Cur)' = SubSeq(R, 1, Len(R) - 1)
            /\ StoreView(Cur)' = e.after_state
            /\ Len(H) = Len(HistoryDocs(Cur)) + 1
            /\ H[Len(H)].id # e.id
            /\ H[Len(H)].before_state = e.before_state
            /\ H[Len(H)].after_state = e.after_state
            /\ StoreView(undo_operation(Cur, NoFault).S)' = e.before_state]_vars

\* the k newest entries of a stack, newest first
Newest(H, k) ==
    LET n == IF k < Len(H) THEN k ELSE Len(H)
    IN [i \in 1..n |-> H[Len(H) + 1 - i]]

\* C9 (get_history): get_history(limit) returns min(limit, size) entries,
\* the most recently added ones, newest first, for every limit >= 1, with
\* and without a backing.
C9_GetHistoryNewestFirst ==
    \A limit \in 1..MaxLimit :
        get_history(Cur, limit, FALSE) = Newest(HistoryDocs(Cur), limit)

\* C10 (empty-stack undo and redo): an undo met by an empty history stack,
\* and a redo met by an empty redo stack, is answered with a failure that
\* carries a reason; no store changes and no event is published.
C10_EmptyStackIsReportedNoOp ==
    [][(\/ out'.req = "undo" /\ HistoryDocs(Cur) = <<>>
        \/ out'.req = "redo" /\ RedoDocs(Cur) = <<>>) =>
         /\ out'.status = "400"
         /\ out'.detail # ""
         /\ out'.event = <<>>
         /\ ~out'.delivered
         /\ UNCHANGED <<r_town_data, r_town_history, r_town_redo, heap,
                        _town_data_storage, _history_stack, _redo_stack,
                        uuid_count>>]_vars

\* an undo was refused while the redo stack held an entry
C10_UndoRefused ==
    /\ out.req = "undo" /\ out.status = "400"
    /\ out.pre.history = 0
    /\ RedoDocs(Cur) # <<>>

\* C8 (bounded history): the history stack and the redo stack never hold
\* more than MAX_HISTORY_SIZE entries; the entry that makes room for a new
\* one is the oldest, so that once more than MAX_HISTORY_SIZE batches are
\* committed get_history(MAX_HISTORY_SIZE + 1) returns the MAX_HISTORY_SIZE
\* newest entries, newest first.
C8_BoundedHistory ==
    /\ Len(r_town_history) <= MAX_HISTORY_SIZE
    /\ Len(_history_stack) <= MAX_HISTORY_SIZE
    /\ Len(r_town_redo) <= MAX_HISTORY_SIZE
    /\ Len(_redo_stack) <= MAX_HISTORY_SIZE
    /\ (uuid_count > MAX_HISTORY_SIZE /\ RedoDocs(Cur) = <<>>) =>
           LET h == get_history(Cur, MAX_HISTORY_SIZE + 1, FALSE)
           IN /\ Len(h) = MAX_HISTORY_SIZE
              /\ \A i \in 1..Len(h) : h[i].id = uuid_count + 1 - i

\* MAX_HISTORY_SIZE + 1 batches were committed and the history read
C8_ReadAfterEviction ==
    /\ uuid_count = MAX_HISTORY_SIZE + 1
    /\ out.req = "history"
    /\ Len(out.history) = MAX_HISTORY_SIZE
    /\ out.history[1].id = MAX_HISTORY_SIZE + 1
    /\ out.history[MAX_HISTORY_SIZE].id = 2

\* C11 (get_town_data returns a deep copy): a caller that changes in place
\* the value get_town_data returned (appends to a list, removes from it,
\* changes a field of an object) and calls no set_town_data leaves what
\* the next get_town_data returns as it was.
C11_ReturnedValueIsACopy ==
    [][out'.req = "modify" => StoreView(Cur)' = StoreView(Cur)]_vars

\* C12 (read your writes): after set_town_data(s), every get_town_data
\* with no set in between returns s, whether the backing is absent,
\* reachable, failing at the set only or failing at the get only.
C12_ReadYourWrites ==
    (out.req = "get" /\ watch # <<>> /\ watch[1].stage = "set") =>
        out.town = watch[1].P

\* a request that replaces the Scene Store hands its event to broadcast_sse
Published_ ==
    /\ out'.req \in {"batch", "undo", "redo", "restore"}
    /\ out'.event # <<>>

\* C13 (write, then publish): every successful batch, undo, redo and
\* snapshot restore publishes, after its store write, a full event whose
\* town is the document the next get_town_data returns.
C13_PublishedIsNextGet ==
    [][Published_ =>
           /\ out'.event[1].type = "full"
           /\ out'.event[1].town = StoreView(Cur)']_vars

\* two requests were in progress at the same time and both have ended
Overlapped ==
    /\ reqs = <<>>
    /\ watch # <<>>
    /\ Len(watch[1].kinds) = 2

\* C14 (no lost update): after two mutation requests that were in progress
\* at the same time, the Scene Store, the history stack and the redo stack
\* are those left by running the two requests one after the other, in one
\* of the two orders.
C14_NoLostUpdate ==
    Overlapped =>
        View(Cur) \in
            {View(Serve(Serve(watch[1].base, watch[1].kinds[1]),
                        watch[1].kinds[2])),
             View(Serve(Serve(watch[1].base, watch[1].kinds[2]),
                        watch[1].kinds[1]))}

\* the request handed an event to broadcast_sse and the PUBLISH failed, or
\* no backing exists
NotPublished_ ==
    /\ Published_
    /\ ~redis_client \/ faults' # faults

\* C17 (fire-and-forget broadcast): when the PUBLISH fails or no backing
\* exists, the batch, undo, redo or restore that called broadcast_sse
\* reports success, the store holds the state it wrote, and its entry is on
\* the history stack (batch, redo) or moved to the redo stack (undo); a
\* restore leaves both stacks as they were.
C17_BroadcastFireAndForget ==
    [][NotPublished_ =>
           /\ out'.status = "success"
           /\ ~out'.delivered
           /\ StoreView(Cur)' = out'.event[1].town
           /\ out'.req \in {"batch", "redo"} =>
                  Len(HistoryDocs(Cur))' = out'.pre.history + 1
           /\ out'.req = "undo" =>
                  /\ Len(HistoryDocs(Cur))' = out'.pre.history - 1
                  /\ Len(RedoDocs(Cur))' = out'.pre.redo + 1
           /\ out'.req = "restore" =>
                  /\ Len(HistoryDocs(Cur))' = out'.pre.history
                  /\ Len(RedoDocs(Cur))' = out'.pre.redo]_vars

\* an undo whose PUBLISH failed though a client exists
C17_UndoNotPublished ==
    /\ redis_client
    /\ faults = 1
    /\ out.req = "undo"
    /\ out.status = "success"
    /\ out.event # <<>>
    /\ ~out.delivered

\* C19 (presence timeout): get_online_users called at time now returns and
\* keeps every user last seen at t with now - t <= 30, and removes from the
\* map and does not return every user with now - t > 30.
C19_PresenceTimeout ==
    [][out'.req = "users" =>
           \A u \in _connected_users :
               IF now - u.ts <= 30
               THEN u.name \in out'.users /\ u \in _connected_users'
               ELSE /\ u.name \notin out'.users
                    /\ u.name \notin Keys(_connected_users')]_vars

\* a call that removed a user last seen 31 seconds before and returned a
\* user last seen 30 seconds before
C19_SweptAt31KeptAt30 ==
    /\ out.req = "users"
    /\ \E u \in out.removed : out.at - u.ts = 31
    /\ \E u \in _connected_users : out.at - u.ts = 30 /\ u.name \in out.users

\* C15 (initial sync): for every stream, with and without a backing, the
\* first frame yielded is a full event and the second a users event.
C15_InitialSync ==
    \A i \in 1..Len(streams) :
        /\ Len(streams[i].frames) >= 1 =>
               /\ streams[i].frames[1].kind = "initial"
               /\ streams[i].frames[1].data.type = "full"
        /\ Len(streams[i].frames) >= 2 =>
               /\ streams[i].frames[2].kind = "initial"
               /\ streams[i].frames[2].data.type = "users"

\* C16 (fan-out order): the events a live subscriber has been delivered,
\* followed by those waiting in its subscription, are the events published
\* since it subscribed, each once and in the order of publication.
C16_FanOutOrder ==
    \A i \in 1..Len(streams) :
        streams[i].open /\ streams[i].sub =>
            Events(streams[i].frames) \o streams[i].queue
                = SubSeq(channel, streams[i].from + 1, Len(channel))

\* a subscriber was delivered two events, and one that subscribed after
\* the first of them was delivered the second only
C16_TwoDelivered ==
    \E i, j \in 1..Len(streams) :
        /\ streams[i].open /\ streams[j].open
        /\ streams[i].from = 0 /\ streams[j].from = 1
        /\ Events(streams[i].frames) = channel
        /\ Events(streams[j].frames) = Tail(channel)
        /\ Len(channel) = 2

\* C18 (cleanup on every exit path): after a stream has ended, its
\* subscription is released and its name, when it had one and no open
\* stream has the same, is not in the presence map.
C18_NothingOutlivesTheStream ==
    \A i \in 1..Len(streams) :
        ~streams[i].open =>
            /\ ~streams[i].sub
            /\ streams[i].name # NoName =>
                   \/ streams[i].name \notin Keys(_connected_users)
                   \/ \E j \in 1..Len(streams) :
                          streams[j].open /\ streams[j].name = streams[i].name

\* C20 (keep-alive): a keep-alive frame sent to a named stream comes with
\* the name's last-seen timestamp set to the current time.
C20_KeepaliveTouches ==
    [][out'.req = "keepalive" /\ streams[out'.stream].name # NoName =>
           [name |-> streams[out'.stream].name, ts |-> now]
               \in _connected_users']_vars

\* C21 (roster broadcast): every step that changes the names in the presence
\* map (a join, a removal by the timeout sweep, a removal on disconnect)
\* publishes a users event that carries the names after the change.
C21_RosterChangeIsPublished ==
    [][Keys(_connected_users)' # Keys(_connected_users) =>
           channel' = Append(channel, [type |-> "users",
                                       users |-> Keys(_connected_users)'])]_vars

\* a batch of one delete by position
PositionalDelete ==
    /\ out.req = "batch"
    /\ Len(out.operations) = 1
    /\ out.operations[1].op = "delete"
    /\ out.operations[1].id = None

\* every object of the list has a well-formed position
WellPlaced(list) ==
    \A i \in 1..Len(list) : list[i].position \notin {AbsentPos, BadPos}

\* the squared Euclidean distance of an object to a point
Apart2(obj, point) == (obj.position - point) * (obj.position - point)

\* the objects of the list at the minimum distance to the point
Nearest(list, point) ==
    {i \in 1..Len(list) :
        \A j \in 1..Len(list) : Apart2(list[i], point) <= Apart2(list[j], point)}

\* C22 (delete by position): on a category whose objects all have a
\* position, a delete by position removes exactly one object, one at the
\* minimum distance to the point, when that distance is below 2.0; when the
\* category is empty or the nearest object is at distance 2.0 or more it
\* fails as not found and removes nothing.
C22_DeleteByPosition ==
    PositionalDelete /\ WellPlaced(Objects(out.before, "buildings")) =>
        IF \E i \in Nearest(Objects(out.before, "buildings"),
                            out.operations[1].position) :
               Apart2(Objects(out.before, "buildings")[i],
                      out.operations[1].position) < 2 * 2
        THEN /\ out.results[1].success
             /\ \E i \in Nearest(Objects(out.before, "buildings"),
                                 out.operations[1].position) :
                    Objects(StoreView(Cur), "buildings")
                        = PopAt(Objects(out.before, "buildings"), i)
        ELSE /\ ~out.results[1].success
             /\ out.results[1].message = "No model found"
             /\ StoreView(Cur) = out.before

\* b at 2 and a at 0, in that order, and a delete at 0 that removed a
C22_NearestIsSecond ==
    /\ PositionalDelete
    /\ out.operations[1].position = 0
    /\ Len(Objects(out.before, "buildings")) = 2
    /\ Objects(out.before, "buildings")[1].position = 2
    /\ Objects(out.before, "buildings")[2].position = 0
    /\ out.results[1].success
    /\ Len(Objects(StoreView(Cur), "buildings")) = 1

\* a batch of one create whose data has no position or a malformed one
UnplacedCreate ==
    /\ out.req = "batch"
    /\ Len(out.operations) = 1
    /\ out.operations[1].op = "create"
    /\ out.operations[1].data.position \in {AbsentPos, BadPos}

\* C23 (validated create): with validate set, a create whose data has no
\* position, or a position that is not a mapping with its coordinates,
\* fails with a validation error and the store keeps its state; with
\* validate unset the same create succeeds.
C23_ValidatedCreate ==
    UnplacedCreate =>
        IF out.validate
        THEN /\ ~out.results[1].success
             /\ out.status = "partial"
             /\ StoreView(Cur) = out.before
        ELSE out.results[1].success

(* C24. Id uniqueness: from a store whose ids are unique within each category,
   a committed batch (a create that supplies an id already present, or an
   update whose data carries an id field, included) leaves no category with
   two objects of the same id. *)
UniqueIds(list) ==
    \A i, j \in DOMAIN list : list[i].id = list[j].id => i = j

UniqueTown(town) ==
    \A category \in DOMAIN town : UniqueIds(town[category])

C24_IdsUnique ==
    /\ out.req = "batch"
    /\ out.status = "success"
    /\ UniqueTown(out.before)
    => UniqueTown(StoreView(Cur))

(* The two ways in: a create of an id the category already holds, and an
   update that rewrites an object's id to another object's. *)
C24_DuplicateCreated ==
    /\ out.req = "batch"
    /\ out.status = "success"
    /\ UniqueTown(out.before)
    /\ Len(out.operations) = 1
    /\ out.operations[1].op = "create"
    /\ ~UniqueTown(StoreView(Cur))

C24_DuplicateByUpdate ==
    /\ out.req = "batch"
    /\ out.status = "success"
    /\ UniqueTown(out.before)
    /\ Len(out.operations) = 1
    /\ out.operations[1].op = "update"
    /\ ~UniqueTown(StoreView(Cur))

(* C25. A batch returns one result per submitted operation, in submission
   order; successful + failed is the number of operations and successful is
   the number of results marked success; the status is "success" exactly when
   failed is 0, and any other status means no change was applied. *)
InOrder(results, operations) ==
    /\ Len(results) = Len(operations)
    /\ \A i \in DOMAIN results : results[i].op = operations[i].op

C25_ResultAccounting ==
    out.req = "batch"
    => /\ InOrder(out.results, out.operations)
       /\ out.successful + out.failed = Len(out.operations)
       /\ out.successful = Count(out.results, TRUE)
       /\ (out.status = "success") = (out.failed = 0)
       /\ (out.status # "success" => StoreView(Cur) = out.before)

(* The accounting alone, without the clause on applied changes. *)
C25_Counts ==
    out.req = "batch"
    => /\ InOrder(out.results, out.operations)
       /\ out.successful + out.failed = Len(out.operations)
       /\ out.successful = Count(out.results, TRUE)
       /\ (out.status = "success") = (out.failed = 0)

C25_PartialWithClient ==
    out.req = "batch" /\ redis_client /\ out.status # "success"
    => StoreView(Cur) = out.before

(* C26. A radius query returns exactly the objects in scope whose distance
   to the center is at most r, the boundary included, each with its category
   and its distance, in ascending order of distance, cut to at most limit
   results for every limit given. *)
InScope(town, category) ==
    {[cat |-> c, k |-> k] : c \in Categories, k \in 1..MaxObjects} \cap
    {v \in [cat : Categories, k : 1..MaxObjects] :
        /\ v.cat \in DOMAIN town
        /\ v.k <= Len(town[v.cat])
        /\ category \in {None, v.cat}}

Placed(town, category) ==
    \A v \in InScope(town, category) :
        town[v.cat][v.k].position \notin {AbsentPos, BadPos}

Apart(town, v, center) == Abs(town[v.cat][v.k].position - center)

Hits(town, q) ==
    {v \in InScope(town, q.category) : Apart(town, v, q.center) <= q.radius}

\* result r is object v with its two annotations
Shows(r, town, v, center) ==
    /\ r.id = town[v.cat][v.k].id
    /\ r.position = town[v.cat][v.k].position
    /\ r.driver = town[v.cat][v.k].driver
    /\ r.category = v.cat
    /\ r.distance = Apart(town, v, center)

\* the results are n distinct hits, none farther than a hit left out
NearestHits(results, town, q, n) ==
    /\ Len(results) = n
    /\ \A i, j \in 1..Len(results) :
           i < j => results[i].distance <= results[j].distance
    /\ \E f \in [1..Len(results) -> Hits(town, q)] :
           /\ \A i, j \in 1..Len(results) : f[i] = f[j] => i = j
           /\ \A i \in 1..Len(results) :
                  Shows(results[i], town, f[i], q.center)
           /\ \A v \in Hits(town, q) :
                  (\A i \in 1..Len(results) : f[i] # v)
                  => \A i \in 1..Len(results) :
                         results[i].distance <= Apart(town, v, q.center)

C26_RadiusQuery ==
    /\ out.req = "radius"
    /\ Placed(StoreView(Cur), out.query.category)
    => NearestHits(out.results, StoreView(Cur), out.query,
                   IF out.query.limit = NoLimit
                   THEN Cardinality(Hits(StoreView(Cur), out.query))
                   ELSE Least(out.query.limit,
                              Cardinality(Hits(StoreView(Cur), out.query))))

(* The same, for the limits other than 0. *)
C26_RadiusQueryLimited ==
    out.req = "radius" /\ out.query.limit # 0 => C26_RadiusQuery

(* One object at 4.9 and one at 5.1, r = 5, limit 0: one object comes back. *)
C26_LimitZeroReturnsAll ==
    /\ out.req = "radius"
    /\ out.query.limit = 0
    /\ out.query.radius = 50
    /\ out.query.center = 0
    /\ Len(out.results) = 1
    /\ out.results[1].distance = 49

(* C27. In an advanced query the filters are a conjunction, and an object
   whose filtered field is missing or null fails the filter whatever the
   operator, so it is never in the result; over the drivers police, null and
   fire the filter driver eq police returns exactly one object. *)
Unset(r, field) == field \notin DOMAIN r \/ r[field] \in {None, Absent}

Holds(value, c) ==
    CASE c.operator = "eq" -> value = c.value
      [] c.operator = "ne" -> value # c.value
      [] c.operator = "gt" -> StrRank(value) > StrRank(c.value)
      [] c.operator = "lt" -> StrRank(value) < StrRank(c.value)
      [] c.operator = "gte" -> ~(StrRank(value) < StrRank(c.value))
      [] c.operator = "lte" -> ~(StrRank(value) > StrRank(c.value))
      [] c.operator = "contains" -> StrIn(c.value, value)
      [] c.operator = "in" -> value \in c.value

\* the object passes every condition, and none of them reads an unset field
Passes(r, filters) ==
    \A i \in 1..Len(filters) :
        /\ ~Unset(r, filters[i].field)
        /\ Holds(r[filters[i].field], filters[i])

\* the objects in scope that pass, counted
Passing(town, q) ==
    {v \in InScope(town, q.category) :
        Passes([category |-> v.cat] @@ town[v.cat][v.k], q.filters)}

WholePage(q) == q.limit = NoLimit /\ q.offset = 0

ThreeDrivers(town) ==
    /\ Cardinality(InScope(town, None)) = 3
    /\ \A d \in {"police", None, "fire"} :
           \E v \in InScope(town, None) : town[v.cat][v.k].driver = d

C27_FiltersAreAConjunction ==
    out.req = "advanced"
    => /\ \A i \in 1..Len(out.results) : Passes(out.results[i], out.query.filters)
       /\ WholePage(out.query)
          => Len(out.results) = Cardinality(Passing(StoreView(Cur), out.query))
       /\ /\ WholePage(out.query)
          /\ out.query.category = None
          /\ ThreeDrivers(StoreView(Cur))
          /\ out.query.filters = <<[field |-> "driver", operator |-> "eq",
                                    value |-> "police"]>>
          => Len(out.results) = 1

(* Police, null and fire are in scope, and the filter is driver ne police:
   the object with the null driver is left out, the one with fire comes
   back. *)
C27_NullFailsNe ==
    /\ out.req = "advanced"
    /\ WholePage(out.query)
    /\ out.query.category = None
    /\ ThreeDrivers(StoreView(Cur))
    /\ out.query.filters = <<[field |-> "driver", operator |-> "ne",
                              value |-> "police"]>>
    /\ Len(out.results) = 1
    /\ out.results[1].driver = "fire"

(* C28. Queries are pure reads: a radius, bounds, nearest or advanced query
   leaves the Scene Store, the history stack, the redo stack and the event
   stream as they were, and the category and distance it adds to its results
   are in no stored object. *)
MemoryView == Dump(_town_data_storage, heap)

Unannotated(town) ==
    \A c \in DOMAIN town : \A k \in 1..Len(town[c]) :
        {"category", "distance"} \cap DOMAIN town[c][k] = {}

C28_QueriesArePureReads ==
    [][out'.req \in QueryRequests
       => /\ r_town_data' = r_town_data
          /\ MemoryView' = MemoryView
          /\ StoreView(Cur)' = StoreView(Cur)
          /\ HistoryDocs(Cur)' = HistoryDocs(Cur)
          /\ RedoDocs(Cur)' = RedoDocs(Cur)
          /\ channel' = channel
          /\ out'.event = <<>>
          /\ Unannotated(MemoryView')
          /\ Unannotated(StoreView(Cur)')]_vars

(* A query has answered with annotated objects read from the in-process
   dictionary, whose lists the one history entry shares. *)
C28_QueriedInMemory ==
    /\ out.req \in QueryRequests
    /\ ~redis_client
    /\ Len(_history_stack) = 1
    /\ Len(out.results) > 0
    /\ out.results[1].category = "buildings"

(* C29. Snapshot round trip: a snapshot created when the Scene Store holds S
   keeps S whatever batches, undos and redos are committed afterwards, and
   restoring it leaves the Scene Store equal to S. *)
Kept(snapshots, snapshot_id) ==
    {d.data : d \in {e \in snapshots.data : e.id = snapshot_id}}

Listed_(snapshots, snapshot_id) ==
    \E i \in 1..Len(snapshots.list) : snapshots.list[i] = snapshot_id

C29_SnapshotRoundTrip ==
    [][/\ out'.req = "snapshot" /\ out'.status = "success"
          => Kept(r_snapshots', out'.snapshot_id) = {StoreView(Cur)}
       /\ out'.req \in {"batch", "undo", "redo"}
          => r_snapshots' = r_snapshots
       /\ out'.req = "restore" /\ Listed_(r_snapshots, out'.snapshot_id)
          => /\ out'.status = "success"
             /\ Kept(r_snapshots, out'.snapshot_id) = {StoreView(Cur)'}
             /\ r_snapshots' = r_snapshots]_vars

(* A restore brought back a snapshot's state over a store that a batch had
   changed since, with a second snapshot taken in between. *)
C29_RestoredOverChanges ==
    /\ out.req = "restore"
    /\ out.status = "success"
    /\ out.snapshot_id = 1
    /\ Listed_(r_snapshots, 2)
    /\ Kept(r_snapshots, 1) # Kept(r_snapshots, 2)
    /\ out.before # StoreView(Cur)
    /\ Kept(r_snapshots, 1) = {StoreView(Cur)}

(* C30. Deleting a snapshot reports success when a snapshot with the id
   existed, and removes it; it reports not found when none exists, and
   leaves the snapshots as they were. *)
C30_DeleteSnapshot ==
    out.req = "delete"
    => IF Listed_(out.snapshots, out.snapshot_id)
       THEN /\ out.status = "success"
            /\ ~Listed_(r_snapshots, out.snapshot_id)
            /\ Kept(r_snapshots, out.snapshot_id) = {}
       ELSE /\ out.status = "404"
            /\ r_snapshots = out.snapshots

(* The half of C30 about a snapshot that exists. *)
C30_DeleteExisting ==
    out.req = "delete" /\ Listed_(out.snapshots, out.snapshot_id)
    => /\ out.status = "success"
       /\ ~Listed_(r_snapshots, out.snapshot_id)
       /\ Kept(r_snapshots, out.snapshot_id) = {}

(* C31. Every operation that changes the contents of the Scene Store (a
   batch commit, and the single-object create, edit and delete of the town
   and buildings routes) appends a history entry holding the state before
   and after it, so that it can be undone. *)
Mutations == {"batch", "create_building", "edit_model", "delete_building"}

LastOf(entries) == entries[Len(entries)]

Recorded(before, after, entries, entries_) ==
    /\ Len(entries_) = Len(entries) + 1
    /\ LastOf(entries_).before_state = before
    /\ LastOf(entries_).after_state = after

C31_MutationsAreRecorded ==
    [][out'.req \in Mutations /\ StoreView(Cur)' # StoreView(Cur)
       => Recorded(StoreView(Cur), StoreView(Cur)', HistoryDocs(Cur),
                   HistoryDocs(Cur)')]_vars

(* The same for the single-object routes alone, asking no more than one new
   entry; and for the batches alone. *)
C31_RoutesAddAnEntry ==
    [][out'.req \in Mutations \ {"batch"} /\ StoreView(Cur)' # StoreView(Cur)
       => Len(HistoryDocs(Cur)') = Len(HistoryDocs(Cur)) + 1]_vars

C31_BatchesAddAnEntry ==
    [][out'.req = "batch" /\ StoreView(Cur)' # StoreView(Cur)
       => Len(HistoryDocs(Cur)') = Len(HistoryDocs(Cur)) + 1]_vars

(* C32. The operations of a batch are applied in list order to one working
   copy: a create followed by an update, edit or delete of the created id
   succeeds, and a delete followed by an update of the deleted id fails and
   rejects the batch. *)
Pair == out.req = "batch" /\ Len(out.operations) = 2

OnA(op) == op.category = "buildings" /\ op.id = "a"

HasId(list, id) == \E i \in 1..Len(list) : list[i].id = id

CreatesA(op) == op.op = "create" /\ op.category = "buildings" /\ op.data.id = "a"

C32_OperationsInListOrder ==
    /\ /\ Pair
       /\ CreatesA(out.operations[1])
       /\ out.operations[2].op \in {"update", "edit", "delete"}
       /\ OnA(out.operations[2])
       => /\ out.results[1].success
          /\ out.results[2].success
          /\ out.status = "success"
          /\ /\ ~HasId(Objects(out.before, "buildings"), "a")
             /\ out.operations[2].rotation = AbsentPos
             /\ out.operations[2].scale = AbsentPos
             => Objects(StoreView(Cur), "buildings") =
                    IF out.operations[2].op = "delete"
                    THEN Objects(out.before, "buildings")
                    ELSE Append(Objects(out.before, "buildings"),
                                [NoData EXCEPT
                                    !.id = "a",
                                    !.position =
                                        IF out.operations[2].op = "update"
                                        THEN out.operations[2].data.position
                                        ELSE IF out.operations[2].position
                                                # AbsentPos
                                        THEN out.operations[2].position
                                        ELSE 0])
    /\ /\ Pair
       /\ out.operations[1].op = "delete"
       /\ OnA(out.operations[1])
       /\ out.operations[2].op = "update"
       /\ OnA(out.operations[2])
       /\ Cardinality({i \in 1..Len(Objects(out.before, "buildings")) :
                          Objects(out.before, "buildings")[i].id = "a"}) = 1
       => /\ out.results[1].success
          /\ ~out.results[2].success
          /\ out.status = "partial"
          /\ out.event = <<>>

(* A created object was updated by the next operation of its batch, and a
   delete took from a later update the object it named. *)
C32_CreatedThenUpdated ==
    /\ Pair
    /\ CreatesA(out.operations[1])
    /\ out.operations[2].op = "update"
    /\ OnA(out.operations[2])
    /\ Objects(out.before, "buildings") = <<>>
    /\ Objects(StoreView(Cur), "buildings") =
           <<[NoData EXCEPT !.id = "a", !.position = 3]>>

C32_DeletedThenUpdated ==
    /\ Pair
    /\ out.operations[1].op = "delete"
    /\ out.operations[2].op = "update"
    /\ OnA(out.operations[2])
    /\ out.results[1].success
    /\ ~out.results[2].success

(* C33. A successful update or edit changes only the first object of the
   named category whose id matches: every other object, every other
   category and the order of all lists are as before; an edit changes those
   of position, rotation and scale that were supplied, and reports exactly
   those as changed; an update or edit of an id or a category that does not
   exist fails. *)
Single(ops) ==
    out.req = "batch" /\ Len(out.operations) = 1 /\ out.operations[1].op \in ops

FirstWithId(list, id) ==
    CHOOSE i \in 1..Len(list) :
        list[i].id = id /\ \A j \in 1..(i - 1) : list[j].id # id

Supplied(op) == {f \in {"position", "rotation", "scale"} : op[f] # AbsentPos}

\* the object as the operation leaves it
Changed(obj, op) ==
    IF op.op = "edit"
    THEN [f \in DOMAIN obj |-> IF f \in Supplied(op) THEN op[f] ELSE obj[f]]
    ELSE [f \in DOMAIN obj |->
             IF f = "id" THEN (IF op.data.id # None THEN op.data.id ELSE obj.id)
             ELSE IF op.data[f] # AbsentPos THEN op.data[f]
             ELSE obj[f]]

OnlyThatObject(before, after, op) ==
    /\ DOMAIN after = DOMAIN before
    /\ \A c \in DOMAIN before \ {op.category} : after[c] = before[c]
    /\ after[op.category] =
           [before[op.category] EXCEPT
               ![FirstWithId(before[op.category], op.id)] = Changed(@, op)]

C33_UpdateAndEditFrame ==
    Single({"update", "edit"})
    => IF /\ out.operations[1].category \in DOMAIN out.before
          /\ HasId(out.before[out.operations[1].category],
                   out.operations[1].id)
       THEN /\ out.results[1].success
            /\ out.status = "success"
            /\ OnlyThatObject(out.before, StoreView(Cur), out.operations[1])
            /\ out.operations[1].op = "edit"
               => out.results[1].changes = Supplied(out.operations[1])
       ELSE /\ ~out.results[1].success
            /\ out.status = "partial"

(* The same for the operations that carry no rotation and no scale. *)
C33_PositionOnly ==
    /\ Single({"update", "edit"})
    /\ out.operations[1].rotation = AbsentPos
    /\ out.operations[1].scale = AbsentPos
    => C33_UpdateAndEditFrame

(* An edit that supplied a rotation to an existing object answered success
   and reported no field as changed. *)
C33_RotationDropped ==
    /\ Single({"edit"})
    /\ out.operations[1].rotation = 3
    /\ out.results[1].success
    /\ out.results[1].changes = {}
    /\ StoreView(Cur) = out.before

\* C34: a restore replaces the store by the snapshot's document and publishes
\* one full event carrying it, and it records nothing: the history stack and
\* the redo stack are the same before and after the restore
C34_RestoreRecordsNothing ==
    [][out'.req = "restore" =>
          /\ HistoryDocs(Cur)' = HistoryDocs(Cur)
          /\ RedoDocs(Cur)' = RedoDocs(Cur)
          /\ out'.status = "success" =>
                 /\ Len(out'.event) = 1
                 /\ out'.event[1].type = "full"
                 /\ StoreView(Cur)' = out'.event[1].town]_vars

\* a restore succeeded and changed the store while both stacks held entries
C34_RestoredWithHistory ==
    /\ out.req = "restore"
    /\ out.status = "success"
    /\ out.before # StoreView(Cur)
    /\ Len(HistoryDocs(Cur)) >= 1
    /\ Len(RedoDocs(Cur)) >= 1

\* two batches committed from the current state, two undos, two redos
TwoLevels(b1, b2) ==
    LET c1 == execute_operations(Cur, b1, TRUE, NoFault)
        c2 == execute_operations(c1.S, b2, TRUE, NoFault)
        u1 == undo_operation(c2.S, NoFault)
        u2 == undo_operation(u1.S, NoFault)
        r1 == redo_operation(u2.S, NoFault)
        r2 == redo_operation(r1.S, NoFault)
    IN [c1 |-> c1, c2 |-> c2, u1 |-> u1, u2 |-> u2, r1 |-> r1, r2 |-> r2]

TwoUndone(t) ==
    /\ t.c1.failed = 0 /\ t.c2.failed = 0
    /\ t.u1.status = "success" /\ t.u2.status = "success"

\* a redo took only the top entry of the redo stack
TopRemoved(before, after) ==
    LET R == RedoDocs(before)
    IN R # <<>> /\ RedoDocs(after) = SubSeq(R, 1, Len(R) - 1)

\* C35 (multi-level redo, k = 2): after two committed batches and two
\* undos, two redos succeed and leave the store equal to the post-state of
\* the first batch, then of the second; each redo removes only the top
\* entry of the redo stack
C35_MultiLevelRedo ==
    \A b1, b2 \in SmallBatches :
        LET t == TwoLevels(b1, b2)
        IN TwoUndone(t) =>
              /\ t.r1.status = "success"
              /\ StoreView(t.r1.S) = StoreView(t.c1.S)
              /\ TopRemoved(t.u2.S, t.r1.S)
              /\ t.r2.status = "success"
              /\ StoreView(t.r2.S) = StoreView(t.c2.S)
              /\ TopRemoved(t.r1.S, t.r2.S)

\* the first of the two redos alone: it succeeds
C35_FirstRedoSucceeds ==
    \A b1, b2 \in SmallBatches :
        LET t == TwoLevels(b1, b2)
        IN TwoUndone(t) => t.r1.status = "success"

\* what the model shows instead: the first redo leaves the redo stack empty
\* (its add_entry deletes it) and the second is refused and changes nothing
C35_FirstRedoEmptiesRedo ==
    \A b1, b2 \in SmallBatches :
        LET t == TwoLevels(b1, b2)
        IN TwoUndone(t) =>
              /\ Len(RedoDocs(t.u2.S)) >= 2
              /\ RedoDocs(t.r1.S) = <<>>
              /\ t.r2.status = "400"
              /\ t.r2.detail = "Nothing to redo"
              /\ t.r2.S = t.r1.S

\* in a behaviour: a redo issued right after a successful redo that met at
\* least two entries on the redo stack succeeds
C35_RedoAfterRedo ==
    [][(/\ out.req = "redo" /\ out.status = "success"
        /\ out.pre.redo >= 2
        /\ out'.req = "redo") => out'.status = "success"]_vars

\* C36 (store/history consistency): in every state reached by batch commits,
\* undos and redos, a non-empty history stack has the store's document as
\* the after_state of its newest entry, and a non-empty redo stack has it as
\* the before_state of its newest entry
C36_StoreMatchesStacks ==
    LET H == HistoryDocs(Cur)
        R == RedoDocs(Cur)
    IN /\ H # <<>> => StoreView(Cur) = H[Len(H)].after_state
       /\ R # <<>> => StoreView(Cur) = R[Len(R)].before_state

\* the redo half alone
C36_StoreMatchesRedo ==
    LET R == RedoDocs(Cur)
    IN R # <<>> => StoreView(Cur) = R[Len(R)].before_state

\* the ids of the stored history entries, in the backing's list and in the
\* in-memory deque
StoredIds(S) ==
    [i \in 1..Len(HistoryDocs(S)) |-> HistoryDocs(S)[i].id]

Occurrences(s, x) == Cardinality({i \in 1..Len(s) : s[i] = x})

Greatest(s) ==
    IF s = <<>> THEN 0
    ELSE CHOOSE x \in {s[i] : i \in 1..Len(s)} :
             \A i \in 1..Len(s) : s[i] <= x

\* an add stores the new entry once and keeps every other one
AddedOnce(before, after, id) ==
    \A x \in 1..BackingEntries :
        Occurrences(after, x) = Occurrences(before, x) + (IF x = id THEN 1 ELSE 0)

\* a pop returns the entry added last among the stored ones, and removes it
PoppedNewest(before, after, id) ==
    /\ id = Greatest(before)
    /\ \A x \in 1..BackingEntries :
           Occurrences(after, x) =
               Occurrences(before, x) - (IF x = id THEN 1 ELSE 0)

\* C37 (the history stack is one LIFO stack whatever the backing does): each
\* entry passed to add_entry is stored exactly once, and pop_last_entry
\* returns, and removes, the most recently added entry not yet popped, with
\* no backing, with a backing that answers and with one that fails calls
C37_HistoryIsOneStack ==
    [][/\ out'.req = "add" =>
              AddedOnce(StoredIds(Cur), StoredIds(Cur)', out'.id)
       /\ out'.req = "pop" =>
              PoppedNewest(StoredIds(Cur), StoredIds(Cur)', out'.id)]_vars

\* the same while no call of the backing has failed
C37_OneStackWithoutFaults ==
    [][faults' = 0 =>
          /\ out'.req = "add" =>
                 AddedOnce(StoredIds(Cur), StoredIds(Cur)', out'.id)
          /\ out'.req = "pop" =>
                 PoppedNewest(StoredIds(Cur), StoredIds(Cur)', out'.id)]_vars

\* the adds alone, under every fault drawn
C37_AddStoresOnce ==
    [][out'.req = "add" =>
          AddedOnce(StoredIds(Cur), StoredIds(Cur)', out'.id)]_vars

\* the pops alone, under every fault drawn
C37_PopReturnsNewest ==
    [][out'.req = "pop" =>
          PoppedNewest(StoredIds(Cur), StoredIds(Cur)', out'.id)]_vars

\* the towns a subscriber knows of: the one of its initial full frame, then
\* those of the full events it was delivered or that wait in its
\* subscription
KnownTowns(s) ==
    LET e == SelectSeq(Events(s.frames) \o s.queue,
                       LAMBDA d : d.type = "full")
    IN <<s.frames[1].data.town>> \o [k \in 1..Len(e) |-> e[k].town]

\* the stream has read the store for its initial full frame
HasRead(s) == s.open /\ s.pc \in {"full", "loop"}

\* C38 (no gap at subscribe): a stream that has read the store for its
\* initial frame has the full frame first, and after it, delivered or
\* waiting in its subscription, the event of every mutation committed since
\* the read: the last town it knows of is the store's document
C38_NoGapAtSubscribe ==
    \A i \in 1..Len(streams) :
        redis_client /\ HasRead(streams[i]) =>
            /\ streams[i].frames[1].kind = "initial"
            /\ streams[i].frames[1].data.type = "full"
            /\ KnownTowns(streams[i])[Len(KnownTowns(streams[i]))]
                   = StoreView(Cur)

\* a step keeps what such a stream was delivered, in order, and adds what
\* was published to what it is still to be delivered
C38_PublishedIsQueued ==
    [][\A i \in 1..Len(streams) :
          (redis_client /\ HasRead(streams[i]) /\ streams'[i].open) =>
              /\ SubSeq(streams'[i].frames, 1, Len(streams[i].frames))
                     = streams[i].frames
              /\ Events(streams'[i].frames) \o streams'[i].queue
                     = Events(streams[i].frames) \o streams[i].queue
                          \o SubSeq(channel', Len(channel) + 1,
                                    Len(channel'))]_vars

\* a stream was delivered, after its full frame, the event of a batch
\* committed after it read the store
C38_DeliveredAfterFull ==
    \E i \in 1..Len(streams) :
        /\ redis_client /\ HasRead(streams[i])
        /\ \E j \in 2..Len(streams[i].frames) :
               /\ streams[i].frames[j].kind = "event"
               /\ streams[i].frames[j].data.type = "full"
               /\ Len(streams[i].frames[j].data.town.buildings)
                      > Len(streams[i].frames[1].data.town.buildings)
               /\ streams[i].frames[j].data.town = StoreView(Cur)

\* the stream is open and has registered its name (events.py lines 77-79)
RegisteredAs(s, name) ==
    /\ s.open /\ s.name = name
    /\ s.pc \in {"registered", "full", "loop"}

\* stream j, registered under the name, ends in this step while stream i,
\* registered under the same name, stays open
OneOfTwoLeaves(i, j, name) ==
    /\ i # j
    /\ RegisteredAs(streams[i], name) /\ streams'[i].open
    /\ RegisteredAs(streams[j], name) /\ ~streams'[j].open

\* C39 (shared name): when two connections are registered under one name
\* and one of them disconnects, get_online_users still returns the name
C39_SharedNameStays ==
    [][\A i, j \in 1..Len(streams) :
          OneOfTwoLeaves(i, j, "alice") =>
              "alice" \in get_online_users(_connected_users, now)'.ret]_vars

\* the same for the connections that end by the generator being closed
C39_SharedNameStaysOnClose ==
    [][\A i, j \in 1..Len(streams) :
          (OneOfTwoLeaves(i, j, "alice") /\ out'.req = "close") =>
              "alice" \in get_online_users(_connected_users, now)'.ret]_vars

\* what the model shows for the cancelled ones: the name is gone
C39_CancelRemovesSharedName ==
    [][\A i, j \in 1..Len(streams) :
          (OneOfTwoLeaves(i, j, "alice") /\ out'.req = "cancel") =>
              "alice" \notin get_online_users(_connected_users, now)'.ret]_vars

\* the step is a batch with an empty operation list
EmptyBatch_ == out'.req = "batch" /\ out'.results = <<>>

\* C40 (empty batch): a batch with no operations returns no results with
\* successful = 0 and failed = 0 and is answered as a success; it writes the
\* unchanged state to the store, appends one history entry whose
\* before_state equals its after_state, empties the redo stack and hands a
\* full event with that state to broadcast_sse
C40_EmptyBatchCommits ==
    [][EmptyBatch_ =>
          LET r == execute_operations(Cur, <<>>, TRUE, NoFault)
              H == HistoryDocs(Cur)'
          IN /\ r.results = <<>> /\ r.successful = 0 /\ r.failed = 0
             /\ out'.status = "success"
             /\ StoreView(Cur)' = StoreView(Cur)
             /\ redis_client => r_town_data' = <<StoreView(Cur)>>
             /\ Len(H) = Len(HistoryDocs(Cur)) + 1
             /\ H[Len(H)].before_state = StoreView(Cur)
             /\ H[Len(H)].after_state = StoreView(Cur)
             /\ RedoDocs(Cur)' = <<>>
             /\ out'.event = <<[type |-> "full", town |-> StoreView(Cur)]>>
             /\ out'.delivered = redis_client]_vars

\* an empty batch was committed over a store that held an object, when the
\* redo stack held an entry
C40_EmptyBatchOverRedo ==
    /\ out.req = "batch" /\ out.results = <<>>
    /\ out.status = "success"
    /\ out.pre.redo > 0
    /\ RedoDocs(Cur) = <<>>
    /\ StoreView(Cur).buildings # <<>>

====
